---- MODULE Spec2Model ----
(***************************************************************************)
(* The module lifecycle manager of the Discord bot framework kernel        *)
(* (src/main.py): the Load, Unload and Update command handlers, the        *)
(* source-control helpers they call, and the collaborators they drive      *)
(* (the dynamic code loader, the dispatcher, the dependency installer).    *)
(*                                                                         *)
(* A handler is an asyncio coroutine: the code between two awaits runs     *)
(* without interruption, and handlers interleave at their awaits.  Each    *)
(* action below is one such segment, from the completion of the await the  *)
(* handler is suspended at to the start of its next await (or its return). *)
(*                                                                         *)
(* Text is modelled as a sequence of one-character strings, so that the    *)
(* URL normalizer works on characters as the code does.                    *)
(***************************************************************************)
EXTENDS Integers, Sequences, FiniteSets, TLC

(***************************************************************************)
(* Bounds of the model.                                                    *)
(***************************************************************************)
\* Number of handler tasks that may be in flight at once.
NumHandlers == 2
\* Longest host and path component the normalizers are run on.
MaxLen == 2
\* Number of distinct commits a working copy can come to hold.
MaxRev == 2

Handlers == 1..NumHandlers
Revs == 1..MaxRev

(***************************************************************************)
(* Text helpers: str.split, str.join, str.endswith, str.translate.         *)
(***************************************************************************)
RECURSIVE SplitFrom(_, _, _)
\* The segments of s (from its first character on) between occurrences of
\* sep, with cur the segment read so far.
SplitFrom(s, sep, cur) ==
    IF s = <<>> THEN <<cur>>
    ELSE IF Head(s) = sep THEN <<cur>> \o SplitFrom(Tail(s), sep, <<>>)
    ELSE SplitFrom(Tail(s), sep, Append(cur, Head(s)))

\* str.split(sep): always at least one segment ("" splits to [""]).
Split(s, sep) == SplitFrom(s, sep, <<>>)

RECURSIVE Join(_, _)
\* sep.join(parts)
Join(parts, sep) ==
    IF parts = <<>> THEN <<>>
    ELSE IF Len(parts) = 1 THEN parts[1]
    ELSE parts[1] \o <<sep>> \o Join(Tail(parts), sep)

\* s.endswith(suffix)
EndsWith(s, suffix) ==
    /\ Len(s) >= Len(suffix)
    /\ SubSeq(s, Len(s) - Len(suffix) + 1, Len(s)) = suffix

\* The hyphen escaped as the underscore is.
up_conv_dict_hyphen_as_underscore(c) ==
    CASE c = "_" -> <<"_", "u", "_">>
      [] c = "/" -> <<"_", "s", "_">>
      [] c = "." -> <<"_", "d", "_">>
      [] c = "-" -> <<"_", "u", "_">>
      [] OTHER   -> <<c>>

\* up_conv_dict: the replacement of each escaped character.
up_conv_dict(c) ==
    CASE c = "_" -> <<"_", "u", "_">>
      [] c = "/" -> <<"_", "s", "_">>
      [] c = "." -> <<"_", "d", "_">>
      [] c = "-" -> <<"_", "h", "_">>
      [] OTHER   -> <<c>>

\* No character escaped.
translate_nothing(s) == s

RECURSIVE translate(_)
\* str.translate(str.maketrans(up_conv_dict)): one pass, character by character.
translate(s) ==
    IF s = <<>> THEN <<>> ELSE up_conv_dict(Head(s)) \o translate(Tail(s))

WWW == <<"w", "w", "w">>
COM == <<"c", "o", "m">>
DotGit == <<".", "g", "i", "t">>

(***************************************************************************)
(* parse_git_url.  A URL is given as urlsplit returns it: its scheme, its  *)
(* netloc and its path.                                                    *)
(***************************************************************************)
\* c occurs in s
Contains(s, c) == \E i \in DOMAIN s : s[i] = c

\* urlsplit(url) raises ValueError ("Invalid IPv6 URL") for a netloc with one
\* square bracket and not the other.
urlsplit_raises(u) == Contains(u.netloc, "[") # Contains(u.netloc, "]")

parse_git_url(u) ==
    LET uns == Split(u.netloc, ".")
        bad == \/ u.scheme # "https"
               \/ u.netloc = <<>>
               \/ uns[Len(uns)] # COM
               \/ Len(uns) < 2
               \/ ~EndsWith(u.path, DotGit)
        kept(x) == x \notin {WWW, COM}
        netloc == translate(Join(SelectSeq(uns, kept), "."))
        path == translate(SubSeq(u.path, 2, Len(u.path) - 4))
    IN  IF urlsplit_raises(u) \/ bad THEN [parsed |-> <<>>, validated |-> FALSE, raised |-> FALSE]
        ELSE [parsed |-> netloc \o <<"_", "_">> \o path, validated |-> TRUE, raised |-> FALSE]

(***************************************************************************)
(* giturl_parse of moduleutil.py.                                          *)
(***************************************************************************)
RECURSIVE replace(_, _, _)
\* s.replace(c, r) for a character c
replace(s, c, r) ==
    IF s = <<>> THEN <<>>
    ELSE (IF Head(s) = c THEN r ELSE <<Head(s)>>) \o replace(Tail(s), c, r)

\* for _ in up_conv_dict: s = s.replace(_, up_conv_dict[_]), the keys taken
\* in the order of the dictionary: '_', '/', '.', '-'.
replace_each(s) ==
    replace(replace(replace(replace(s, "_", <<"_", "u", "_">>),
                            "/", <<"_", "s", "_">>),
                    ".", <<"_", "d", "_">>),
            "-", <<"_", "h", "_">>)

giturl_parse(u) ==
    LET uns == Split(u.netloc, ".")
        ext == Split(u.path, ".")
        \* _ != 'www' or _ != 'com'
        kept(x) == x # WWW \/ x # COM
        netloc == replace_each(Join(SelectSeq(uns, kept), "."))
        path == replace_each(SubSeq(u.path, 2, Len(u.path) - 4))
    IN  IF urlsplit_raises(u) THEN [parsed |-> <<>>, validated |-> FALSE, raised |-> TRUE]
        ELSE IF \/ u.scheme # "https"
                \/ u.netloc = <<>>
                \/ (uns[Len(uns)] # COM \/ Len(uns) < 2)
                \/ ext[Len(ext)] # <<"g", "i", "t">>
        THEN [parsed |-> <<>>, validated |-> FALSE, raised |-> FALSE]
        ELSE [parsed |-> netloc \o <<"_", "_">> \o path, validated |-> TRUE, raised |-> FALSE]

(***************************************************************************)
(* The inputs of the model.                                                *)
(***************************************************************************)
\* https://g.com/a.git
UrlA == [scheme |-> "https", netloc |-> <<"g", ".", "c", "o", "m">>,
         path |-> <<"/", "a", ".", "g", "i", "t">>]
\* https://www.g.com/a.git: another URL of the same identity
UrlWwwA == [scheme |-> "https", netloc |-> <<"w", "w", "w", ".", "g", ".", "c", "o", "m">>,
            path |-> <<"/", "a", ".", "g", "i", "t">>]
\* http://g.com/a.git: not HTTPS
UrlHttp == [scheme |-> "http", netloc |-> <<"g", ".", "c", "o", "m">>,
            path |-> <<"/", "a", ".", "g", "i", "t">>]

\* The URLs given to Load.
LoadUrls == {UrlA, UrlWwwA, UrlHttp}

\* The identity of UrlA and UrlWwwA: g__a
IdA == <<"g", "_", "_", "a">>
\* A directory under extensions/ that is no repository of its own.
Cache == <<"c", "a", "c", "h", "e">>

(***************************************************************************)
(* The URLs the normalizers are run on.                                    *)
(***************************************************************************)
Schemes == {"https", "http"}

\* "", com, g.com, www.g.com, g.org, com.g.com, g.www.com, [g.com, a__b.com,
\* a.com, a-b.com, a_b.com, wwww.com, coma.com
FixedNetlocs ==
    { <<>>,
      <<"c", "o", "m">>,
      <<"g", ".", "c", "o", "m">>,
      <<"w", "w", "w", ".", "g", ".", "c", "o", "m">>,
      <<"g", ".", "o", "r", "g">>,
      <<"c", "o", "m", ".", "g", ".", "c", "o", "m">>,
      <<"g", ".", "w", "w", "w", ".", "c", "o", "m">>,
      <<"[", "g", ".", "c", "o", "m">>,
      <<"a", "_", "_", "b", ".", "c", "o", "m">>,
      <<"a", ".", "c", "o", "m">>,
      <<"a", "-", "b", ".", "c", "o", "m">>,
      <<"a", "_", "b", ".", "c", "o", "m">>,
      <<"w", "w", "w", "w", ".", "c", "o", "m">>,
      <<"c", "o", "m", "a", ".", "c", "o", "m">> }

\* "", /a.git, /a, /agit, /b__c.git, /c.git, /x.git
FixedPaths ==
    { <<>>,
      <<"/", "a", ".", "g", "i", "t">>,
      <<"/", "a">>,
      <<"/", "a", "g", "i", "t">>,
      <<"/", "b", "_", "_", "c", ".", "g", "i", "t">>,
      <<"/", "c", ".", "g", "i", "t">>,
      <<"/", "x", ".", "g", "i", "t">> }

FixedUrls ==
    {[scheme |-> sc, netloc |-> n, path |-> p] : sc \in Schemes, n \in FixedNetlocs, p \in FixedPaths}

\* The characters of the components: a letter that also occurs in the escape
\* sequences, and the four characters escaped.
Alphabet == {"u", "_", "/", ".", "-"}

\* The strings of at most MaxLen characters.
Components == UNION {[1..k -> Alphabet] : k \in 0..MaxLen}

\* https://<host>.com/<path>.git
ComponentUrl(host, path) ==
    [scheme |-> "https", netloc |-> host \o <<".">> \o COM, path |-> <<"/">> \o path \o DotGit]

ComponentUrls == {ComponentUrl(host, path) : host \in Components, path \in Components}

NormUrls == FixedUrls \cup ComponentUrls

\* The names under extensions/ the model follows; also the names given to
\* Unload and Update.
ModuleNames == {IdA, Cache}

\* https://g.com/b.git and its identity g__b: a second module, for the runs
\* that list the modules.
UrlB == [scheme |-> "https", netloc |-> <<"g", ".", "c", "o", "m">>,
         path |-> <<"/", "b", ".", "g", "i", "t">>]
IdB == <<"g", "_", "_", "b">>
ListUrls == {UrlA, UrlB}
ListNames == {IdA, IdB, Cache}

VARIABLES
    kernel_git, \* whether the kernel's own directory (os.getcwd()) is inside a Git repository
    fs,         \* extensions/<name>: kind of the path, presence of requirements.txt, commit checked out
    loaded,     \* the loader: the revision of extensions.<name>.main that is active, 0 when none is
    gateway,    \* the dispatcher: the modules whose commands the gateway lists
    installed,  \* the shared dependency environment: the modules whose manifest has been applied
    pc,         \* per handler: the await it is suspended at, "idle" before its first call, "done" after a return
    op,         \* per handler: "load", "unload" or "update"
    arg,        \* per handler: the url (load) or the module name (unload, update)
    reports,    \* per handler: terminal reports sent to the caller by this invocation
    steps,      \* per handler: the collaborator calls of this invocation, in order
    outcome,    \* per handler: how this invocation ended (or is about to end)
    modules,    \* per handler: the directory entries cmd_module_list has scanned
    embed,      \* per handler: the fields cmd_module_list has added to its embed
    call,       \* a call of a helper on its own: the function, its input, its result
    is_download_in_progress  \* the global flag of cmd_review_download

evars == <<kernel_git, fs, loaded, gateway, installed>>
hvars == <<pc, op, arg, reports, steps, outcome>>
lvars == <<modules, embed, is_download_in_progress>>
vars == <<kernel_git, fs, loaded, gateway, installed, pc, op, arg, reports, steps, outcome,
          modules, embed, call, is_download_in_progress>>

AbsentDir == [kind |-> "absent", manifest |-> FALSE, commit |-> 0]
PlainDir == [kind |-> "plain", manifest |-> FALSE, commit |-> 0]

(***************************************************************************)
(* The source-control helpers.                                             *)
(***************************************************************************)
NoRepo == [kind |-> "none", name |-> <<>>]
KernelRepo == [kind |-> "kernel", name |-> <<>>]

\* pygit2.discover_repository(os.getcwd())
discover_cwd(kg) == IF kg THEN KernelRepo ELSE NoRepo

\* pygit2.discover_repository(extensions/<name>): the repository of the path
\* itself, else the one found walking up from it, else None (also for a
\* path that does not exist).
discover_repository(f, kg, name) ==
    CASE f[name].kind = "repo"  -> [kind |-> "module", name |-> name]
      [] f[name].kind = "plain" -> discover_cwd(kg)
      [] OTHER                  -> NoRepo

validate_git_repo(f, kg, name) ==
    discover_repository(f, kg, name) # discover_cwd(kg)

\* shutil.rmtree(path, onerror=handle_error): the tree is removed; on a path
\* that does not exist the error goes to the handler and nothing changes.
rmtree(f, name) == [f EXCEPT ![name] = AbsentDir]

\* The tree removed whatever the path is.
delete_git_repo_unguarded(f, kg, name) == rmtree(f, name)

\* Nothing removed.
delete_git_repo_nothing(f, kg, name) == f

\* delete_git_repo(name): the file system after the call.
delete_git_repo(f, kg, name) ==
    IF ~validate_git_repo(f, kg, name) THEN f ELSE rmtree(f, name)

\* os.path.isdir(extensions/<name>)
isdir(f, name) == name \in DOMAIN f /\ f[name].kind # "absent"

\* A clone that fails with what it had written left at the path.
clone_git_repo_leaves_partial(f, u, cloneOk, hasManifest) ==
    LET p == parse_git_url(u)
    IN  IF ~p.validated THEN [fs |-> f, module |-> p.parsed, validated |-> FALSE]
        ELSE IF isdir(f, p.parsed)
        THEN [fs |-> f, module |-> <<>>, validated |-> FALSE]
        ELSE IF ~cloneOk
        THEN [fs |-> [f EXCEPT ![p.parsed] = PlainDir], module |-> <<>>, validated |-> FALSE]
        ELSE [fs |-> [f EXCEPT ![p.parsed] =
                        [kind |-> "repo", manifest |-> hasManifest, commit |-> 1]],
              module |-> p.parsed, validated |-> TRUE]

\* clone_git_repo(url), with what the remote does: cloneOk (the remote can be
\* cloned) and hasManifest (its head commit holds requirements.txt).
\* pygit2.clone_repository refuses a path that exists.
clone_git_repo(f, u, cloneOk, hasManifest) ==
    LET p == parse_git_url(u)
    IN  IF ~p.validated THEN [fs |-> f, module |-> p.parsed, validated |-> FALSE]
        ELSE IF ~cloneOk \/ isdir(f, p.parsed)
        THEN [fs |-> f, module |-> <<>>, validated |-> FALSE]
        ELSE [fs |-> [f EXCEPT ![p.parsed] =
                        [kind |-> "repo", manifest |-> hasManifest, commit |-> 1]],
              module |-> p.parsed, validated |-> TRUE]

\* A repository: the commit its working tree holds, the commits of
\* refs/heads/master, of HEAD and of refs/remotes/origin/master (0: no such
\* reference).
Repository(w, m, hd, t) == [worktree |-> w, master |-> m, head |-> hd, tracking |-> t]

\* What a pull can meet: pygit2.Repository(path) raises; there is no remote
\* origin; the fetch fails; after the fetch refs/remotes/origin/master does
\* not resolve; checkout_tree refuses (local changes in the way); none of
\* these.
PullEnv == {"open_failed", "no_origin", "fetch_failed", "no_remote_master", "checkout_failed", "ok"}

\* The result of a pull: the code returned (or raised = TRUE), the repository
\* after it, and the operations made on the repository.
PullResult(err, raised, r, ops) == [err |-> err, raised |-> raised, repo |-> r, ops |-> ops]

\* The pull that moves refs/heads/master and leaves HEAD where it was.
pull_git_repo_base_keeps_head(r, env, rev) ==
    LET fetched == [r EXCEPT !.tracking = rev]
        checked == [fetched EXCEPT !.worktree = rev]
        moved == [checked EXCEPT !.master = rev]
    IN  CASE env = "open_failed"      -> PullResult(2, FALSE, r, <<>>)
          [] env = "no_origin"        -> PullResult(3, FALSE, r, <<"open">>)
          [] env = "fetch_failed"     -> PullResult(2, FALSE, r, <<"open">>)
          [] env = "no_remote_master" -> PullResult(3, FALSE, r, <<"open", "fetch">>)
          [] env = "checkout_failed"  -> PullResult(2, FALSE, fetched, <<"open", "fetch">>)
          [] OTHER ->
               IF r.master = 0
               THEN PullResult(3, FALSE, checked, <<"open", "fetch", "checkout">>)
               ELSE PullResult(0, FALSE, moved, <<"open", "fetch", "checkout", "set_master">>)

\* pull_git_repo_base on the repository r, the remote master being at rev:
\* open, remotes["origin"] (KeyError: 3), fetch (GitError: 2), look up
\* refs/remotes/origin/master (KeyError: 3), check its tree out (GitError: 2),
\* look up refs/heads/master (KeyError: 3), move it and HEAD.
pull_git_repo_base(r, env, rev) ==
    LET fetched == [r EXCEPT !.tracking = rev]
        checked == [fetched EXCEPT !.worktree = rev]
        moved == [checked EXCEPT !.master = rev, !.head = rev]
    IN  CASE env = "open_failed"      -> PullResult(2, FALSE, r, <<>>)
          [] env = "no_origin"        -> PullResult(3, FALSE, r, <<"open">>)
          [] env = "fetch_failed"     -> PullResult(2, FALSE, r, <<"open">>)
          [] env = "no_remote_master" -> PullResult(3, FALSE, r, <<"open", "fetch">>)
          [] env = "checkout_failed"  -> PullResult(2, FALSE, fetched, <<"open", "fetch">>)
          [] OTHER ->
               IF r.master = 0
               THEN PullResult(3, FALSE, checked, <<"open", "fetch", "checkout">>)
               ELSE PullResult(0, FALSE, moved,
                               <<"open", "fetch", "checkout", "set_master", "set_head">>)

\* What a pull meets on a path that holds no repository: the open raises, or
\* the remote of the empty object opened cannot be looked up or fetched.
NoRepositoryEnv(env) ==
    IF env \in {"open_failed", "no_origin"} THEN env ELSE "fetch_failed"

\* The check left out: the repository found is pulled whichever it is.
pull_git_repo_unguarded(f, kg, name, r, env, rev) == pull_git_repo_base(r, env, rev)

\* pull_git_repo(name), r being the repository the path resolves to; every
\* exception is caught and gives 2.
pull_git_repo(f, kg, name, r, env, rev) ==
    IF discover_repository(f, kg, name) = discover_cwd(kg) THEN PullResult(1, FALSE, r, <<>>)
    ELSE pull_git_repo_base(r, IF f[name].kind = "repo" THEN env ELSE NoRepositoryEnv(env), rev)

\* base_gitrepo_pull of moduleutil.py: the open and checkout_tree stand
\* outside every try; a missing origin is caught with the failed fetch.
base_gitrepo_pull(r, env, rev) ==
    LET fetched == [r EXCEPT !.tracking = rev]
        checked == [fetched EXCEPT !.worktree = rev]
        moved == [checked EXCEPT !.master = rev, !.head = rev]
    IN  CASE env = "open_failed"      -> PullResult(-1, TRUE, r, <<>>)
          [] env = "no_origin"        -> PullResult(2, FALSE, r, <<"open">>)
          [] env = "fetch_failed"     -> PullResult(2, FALSE, r, <<"open">>)
          [] env = "no_remote_master" -> PullResult(3, FALSE, r, <<"open", "fetch">>)
          [] env = "checkout_failed"  -> PullResult(-1, TRUE, fetched, <<"open", "fetch">>)
          [] OTHER ->
               IF r.master = 0
               THEN PullResult(3, FALSE, checked, <<"open", "fetch", "checkout">>)
               ELSE PullResult(0, FALSE, moved,
                               <<"open", "fetch", "checkout", "set_master", "set_head">>)

\* gitrepo_pull(name) of moduleutil.py
gitrepo_pull(f, kg, name, r, env, rev) ==
    IF discover_repository(f, kg, name) = discover_cwd(kg) THEN PullResult(1, FALSE, r, <<>>)
    ELSE base_gitrepo_pull(r, IF f[name].kind = "repo" THEN env ELSE NoRepositoryEnv(env), rev)

\* is_gitrepo(name) of moduleutil.py
is_gitrepo(f, kg, name) ==
    IF discover_repository(f, kg, name) = discover_cwd(kg) THEN FALSE ELSE TRUE

\* gitrepo_delete(name) of moduleutil.py: the file system after the call
\* (an OSError of rmtree is printed).
gitrepo_delete(f, kg, name) ==
    IF ~is_gitrepo(f, kg, name) THEN f ELSE rmtree(f, name)

\* The commits get_git_repo_info reads from the repository r: current_commit
\* is repo[repo.head.target], remote_head_commit the commit origin/master
\* resolves to.
info_commits(r) == [current_commit |-> r.head, remote_head_commit |-> r.tracking]

\* Every name taken for a module whose info can be read.
get_git_repo_info_always_ok(f, kg, name, readable) == "ok"

\* What get_git_repo_info(name) comes to: "invalid" (not a repository of its
\* own), "raise" (no repository to open, or no origin/master in it), "ok".
get_git_repo_info(f, kg, name, readable) ==
    IF discover_repository(f, kg, name) = discover_cwd(kg) THEN "invalid"
    ELSE IF f[name].kind # "repo" \/ ~readable THEN "raise"
    ELSE "ok"

\* execute_pip_requirements(path): the dependency environment after the call;
\* a failed run may have applied part of the manifest.
PipEnvAfter(inst, name, ok, partly) ==
    IF ok \/ partly THEN inst \cup {name} ELSE inst

(***************************************************************************)
(* The collaborators: the dynamic code loader and the dispatcher.          *)
(***************************************************************************)
\* client.reload_extension: what it can come to for a module.  It loads a
\* module that is not loaded; it needs the code on disk.
LoadResults == {"ok", "ExtensionException", "Exception"}

\* The loader after reload_extension(name) ended with res; on a failure of a
\* module that was active, stillActive tells whether the failure came before
\* the old code was unloaded.
ReloadEffect(ld, f, name, res, stillActive) ==
    IF res = "ok" THEN [ld EXCEPT ![name] = f[name].commit]
    ELSE IF stillActive THEN ld
    ELSE [ld EXCEPT ![name] = 0]

\* client.unload_extension: it raises for a module that is not loaded.
UnloadResults == {"ok", "ImportError", "ExtensionException", "Exception"}

UnloadEffect(ld, name, res) ==
    IF res = "ok" THEN [ld EXCEPT ![name] = 0] ELSE ld

\* client.synchronise_interactions(delete_commands=True)
SyncResults == {"ok", "InteractionException", "Exception"}

SyncEffect(gw, ld, res) ==
    IF res = "ok" THEN {n \in DOMAIN ld : ld[n] # 0} ELSE gw

(***************************************************************************)
(* The state after start-up with no module installed.                      *)
(***************************************************************************)
\* No helper is being called on its own.
NoCall == [fn |-> "none"]

Init ==
    /\ kernel_git \in BOOLEAN
    /\ fs = [n \in ModuleNames |-> IF n = Cache THEN PlainDir ELSE AbsentDir]
    /\ loaded = [n \in ModuleNames |-> 0]
    /\ gateway = {}
    /\ installed = {}
    /\ pc = [h \in Handlers |-> "idle"]
    /\ op = [h \in Handlers |-> "none"]
    /\ arg = [h \in Handlers |-> <<>>]
    /\ reports = [h \in Handlers |-> 0]
    /\ steps = [h \in Handlers |-> <<>>]
    /\ outcome = [h \in Handlers |-> "none"]
    /\ modules = [h \in Handlers |-> {}]
    /\ embed = [h \in Handlers |-> {}]
    /\ is_download_in_progress = FALSE
    /\ call = NoCall

\* A handler is in flight between its call and its return.
InFlight(h) == pc[h] \notin {"idle", "done"}

\* The module identity a handler works on.
Ident(h) == IF op[h] = "load" THEN parse_git_url(arg[h]).parsed ELSE arg[h]

\* The handler moves to the await p (or returns, p = "done") with the outcome
\* out, having sent rep reports and made the calls st.
Step(h, p, out, rep, st) ==
    /\ pc' = [pc EXCEPT ![h] = p]
    /\ outcome' = [outcome EXCEPT ![h] = out]
    /\ reports' = [reports EXCEPT ![h] = @ + rep]
    /\ steps' = [steps EXCEPT ![h] = @ \o st]
    /\ UNCHANGED <<op, arg, lvars, call>>

\* The calls of a deletion that turns the file system f into g.
Deletion(f, g) == IF f # g THEN <<"delete", "rmtree">> ELSE <<"delete">>

\* The gateway calls a command handler.
Call(h, o, a, p) ==
    /\ pc[h] \in {"idle", "done"}
    /\ pc' = [pc EXCEPT ![h] = p]
    /\ op' = [op EXCEPT ![h] = o]
    /\ arg' = [arg EXCEPT ![h] = a]
    /\ reports' = [reports EXCEPT ![h] = 0]
    /\ steps' = [steps EXCEPT ![h] = <<>>]
    /\ outcome' = [outcome EXCEPT ![h] = "running"]
    /\ UNCHANGED <<evars, lvars, call>>

(***************************************************************************)
(* cmd_module_load                                                         *)
(***************************************************************************)
\* The call: up to await ctx.defer.
StartLoad(h) == \E u \in LoadUrls : Call(h, "load", u, "l_defer")

\* ctx.defer returned or raised; then up to the end of the notification
\* (create_embed, dm_members).
LoadDeferred(h) ==
    /\ pc[h] = "l_defer"
    /\ UNCHANGED evars
    /\ \/ Step(h, "done", "defer_failed", 0, <<>>)
       \/ Step(h, "l_notify", "running", 0, <<>>)

\* The notification ended: it raised (send_error, then return), or it went
\* through (then up to await ctx.send of the progress message).
LoadNotified(h) ==
    /\ pc[h] = "l_notify"
    /\ UNCHANGED evars
    /\ \/ Step(h, "l_return", "notify_failed", 1, <<>>)
       \/ Step(h, "l_sending", "running", 0, <<>>)

\* The existence check left out.
LoadDirExistsNever(f, parsed) == FALSE

\* The loader asked instead of the disk alone: 'already loaded' only for a
\* module whose code is active.
LoadDirExistsIfLoaded(f, parsed) == isdir(f, parsed) /\ loaded[parsed] # 0

\* The dependency environment asked as well: 'already loaded' only for a
\* module whose manifest has been applied.
LoadDirExistsIfInstalled(f, parsed) == isdir(f, parsed) /\ parsed \in installed

\* The existence check of cmd_module_load.
LoadDirExists(f, parsed) == isdir(f, parsed)

\* The manifest check left out.
LoadRequirementsExistAlways(f, m) == TRUE

\* os.path.exists(requirements_path) of cmd_module_load.
LoadRequirementsExist(f, m) == f[m].manifest

\* From parse_git_url to the next await, the progress message being sent.
LoadBody(h) ==
    LET p == parse_git_url(arg[h])
        m == p.parsed
    IN  \/ /\ ~p.validated
           /\ Step(h, "l_report", "invalid_url", 1, <<"parse">>)
           /\ UNCHANGED evars
        \/ /\ p.validated
           /\ LoadDirExists(fs, m)
           /\ Step(h, "l_report", "already_loaded", 1, <<"parse", "isdir">>)
           /\ UNCHANGED evars
        \/ /\ p.validated
           /\ ~LoadDirExists(fs, m)
           /\ \E cloneOk, hasManifest \in BOOLEAN :
                LET c == clone_git_repo(fs, arg[h], cloneOk, hasManifest)
                    req == c.validated /\ LoadRequirementsExist(c.fs, m)
                IN  \/ \* the clone failed
                       /\ ~c.validated
                       /\ fs' = c.fs
                       /\ Step(h, "l_report", "clone_failed", 1, <<"parse", "isdir", "clone_failed">>)
                       /\ UNCHANGED <<kernel_git, loaded, gateway, installed>>
                    \/ \* no requirements.txt: the clone is deleted
                       /\ c.validated /\ ~req
                       /\ fs' = delete_git_repo(c.fs, kernel_git, m)
                       /\ Step(h, "l_report", "missing_manifest", 1,
                               <<"parse", "isdir", "clone">> \o Deletion(c.fs, fs'))
                       /\ UNCHANGED <<kernel_git, loaded, gateway, installed>>
                    \/ \* execute_pip_requirements returned False
                       /\ req
                       /\ \E partly \in BOOLEAN :
                            installed' = PipEnvAfter(installed, m, FALSE, partly)
                       /\ fs' = c.fs
                       /\ Step(h, "l_report", "install_failed", 1,
                               <<"parse", "isdir", "clone", "install_failed">>)
                       /\ UNCHANGED <<kernel_git, loaded, gateway>>
                    \/ \* the dependencies are installed, then client.reload_extension
                       /\ req
                       /\ installed' = PipEnvAfter(installed, m, TRUE, FALSE)
                       /\ fs' = c.fs
                       /\ UNCHANGED <<kernel_git, gateway>>
                       /\ \E res \in LoadResults, stillActive \in BOOLEAN :
                            /\ loaded[m] = 0 => ~stillActive
                            /\ res = "ok" => ~stillActive
                            /\ loaded' = ReloadEffect(loaded, c.fs, m, res, stillActive)
                            /\ \/ /\ res = "ok"
                                  /\ Step(h, "l_edit", "loaded", 0,
                                          <<"parse", "isdir", "clone", "install", "load">>)
                               \/ /\ res = "ExtensionException"
                                  /\ Step(h, "l_fail_sync", "load_failed", 0,
                                          <<"parse", "isdir", "clone", "install", "load_failed">>)
                               \/ \* no handler catches it: it leaves cmd_module_load
                                  /\ res = "Exception"
                                  /\ Step(h, "done", "load_raised", 0,
                                          <<"parse", "isdir", "clone", "install", "load_failed">>)

\* ctx.send of the progress message returned or raised.
LoadSent(h) ==
    /\ pc[h] = "l_sending"
    /\ \/ /\ Step(h, "done", "send_failed", 0, <<>>)
          /\ UNCHANGED evars
       \/ LoadBody(h)

\* After a failed load: synchronise_interactions ended, then delete_git_repo
\* and send_error.
LoadFailSynced(h) ==
    /\ pc[h] = "l_fail_sync"
    /\ \E res \in SyncResults :
         /\ gateway' = SyncEffect(gateway, loaded, res)
         /\ \/ /\ res # "Exception"
               /\ fs' = delete_git_repo(fs, kernel_git, Ident(h))
               /\ Step(h, "l_report", "load_failed", 1,
                       <<IF res = "ok" THEN "sync" ELSE "sync_failed">> \o Deletion(fs, fs'))
            \/ /\ res = "Exception"
               /\ fs' = fs
               /\ Step(h, "done", "sync_raised", 0, <<"sync_failed">>)
    /\ UNCHANGED <<kernel_git, loaded, installed>>

\* msg.edit returned, or raised InteractionException (then send_success).
LoadEdited(h) ==
    /\ pc[h] = "l_edit"
    /\ UNCHANGED evars
    /\ \/ Step(h, "done", "loaded", 1, <<>>)
       \/ Step(h, "l_return", "loaded", 1, <<>>)

\* send_error returned; then await msg.delete.
LoadReported(h) ==
    /\ pc[h] = "l_report"
    /\ UNCHANGED evars
    /\ Step(h, "l_return", outcome[h], 0, <<>>)

\* The last await returned (or raised, which is logged): return.
LoadReturn(h) ==
    /\ pc[h] = "l_return"
    /\ UNCHANGED evars
    /\ Step(h, "done", outcome[h], 0, <<>>)

(***************************************************************************)
(* cmd_module_unload                                                       *)
(***************************************************************************)
StartUnload(h) == \E n \in ModuleNames : Call(h, "unload", n, "u_defer")

\* ctx.defer returned or raised; then get_git_repo_info, and up to the next
\* await: send_error, or the notification.
UnloadDeferred(h) ==
    /\ pc[h] = "u_defer"
    /\ UNCHANGED evars
    /\ \/ Step(h, "done", "defer_failed", 0, <<>>)
       \/ \E readable \in BOOLEAN :
            LET info == get_git_repo_info(fs, kernel_git, arg[h], readable)
            IN  \/ /\ info = "invalid"
                   /\ Step(h, "u_return", "invalid_module", 1, <<"info">>)
                \/ /\ info = "raise"
                   /\ Step(h, "u_return", "info_raised", 1, <<"info">>)
                \/ /\ info = "ok"
                   /\ Step(h, "u_notify", "running", 0, <<"info">>)

\* The notification ended (a failure of it is logged); then
\* client.unload_extension and up to the next await.
UnloadNotified(h) ==
    /\ pc[h] = "u_notify"
    /\ UNCHANGED <<kernel_git, fs, gateway, installed>>
    /\ \E res \in UnloadResults :
         /\ loaded[arg[h]] = 0 => res = "ExtensionException"
         /\ loaded' = UnloadEffect(loaded, arg[h], res)
         /\ \/ /\ res = "ok"
               /\ Step(h, "u_sync", "running", 0, <<"unload">>)
            \/ /\ res # "ok"
               /\ Step(h, "u_report", "unload_raised", 1, <<"unload_failed">>)

\* synchronise_interactions ended: send_success, or send_error when it raised
\* something else than InteractionException.
UnloadSynced(h) ==
    /\ pc[h] = "u_sync"
    /\ UNCHANGED <<kernel_git, fs, loaded, installed>>
    /\ \E res \in SyncResults :
         /\ gateway' = SyncEffect(gateway, loaded, res)
         /\ \/ /\ res # "Exception"
               /\ Step(h, "u_report", "unloaded", 1,
                       <<IF res = "ok" THEN "sync" ELSE "sync_failed">>)
            \/ /\ res = "Exception"
               /\ Step(h, "u_report", "sync_raised", 1, <<"sync_failed">>)

\* The deletion made only after a clean unload (the else clause) instead of
\* on every path.
UnloadFinallyOnSuccess(f, kg, name, out) ==
    IF out = "unloaded" THEN delete_git_repo(f, kg, name) ELSE f

\* The finally clause of cmd_module_unload, entered with the outcome out:
\* the file system after it.
UnloadFinally(f, kg, name, out) == delete_git_repo(f, kg, name)

\* The report is sent; then the finally clause, and the return.
UnloadReported(h) ==
    /\ pc[h] = "u_report"
    /\ fs' = UnloadFinally(fs, kernel_git, arg[h], outcome[h])
    /\ UNCHANGED <<kernel_git, loaded, gateway, installed>>
    /\ Step(h, "done", outcome[h], 0, Deletion(fs, fs'))

\* send_error returned: return.
UnloadReturn(h) ==
    /\ pc[h] = "u_return"
    /\ UNCHANGED evars
    /\ Step(h, "done", outcome[h], 0, <<>>)

(***************************************************************************)
(* cmd_module_update                                                       *)
(***************************************************************************)
\* max_concurrency(Buckets.GUILD, 1): one update at a time in the guild.
StartUpdate(h) ==
    /\ \A g \in Handlers : ~(InFlight(g) /\ op[g] = "update")
    /\ \E n \in ModuleNames : Call(h, "update", n, "p_defer")

\* ctx.defer returned or raised; then get_git_repo_info (only a raise of it
\* ends the update), and up to the next await.
UpdateDeferred(h) ==
    /\ pc[h] = "p_defer"
    /\ UNCHANGED evars
    /\ \/ Step(h, "done", "defer_failed", 0, <<>>)
       \/ \E readable \in BOOLEAN :
            LET info == get_git_repo_info(fs, kernel_git, arg[h], readable)
            IN  \/ /\ info = "raise"
                   /\ Step(h, "p_return", "info_raised", 1, <<"info">>)
                \/ /\ info # "raise"
                   /\ Step(h, "p_notify", "running", 0, <<"info">>)

\* The reasons taken one place further down the list.
PullOutcomeShifted(err) ==
    CASE err = 1 -> "fetch_failed"
      [] err = 2 -> "master_not_found"
      [] err = 3 -> "not_a_git_repository"
      [] OTHER   -> "unknown_error"

\* The manifest check left out.
requirements_exists_always(f, m) == TRUE

\* requirements_path.exists() of cmd_module_update.
requirements_exists(f, m) == f[m].manifest

\* The update given up when the installer reported a failure.
UpdateGoesOnIfInstalled(pipOk) == pipOk

\* After execute_pip_requirements cmd_module_update goes on to the reload:
\* the value the installer returned is not looked at.
UpdateGoesOn(pipOk) == TRUE

\* The reason cmd_module_update reports for an error code of pull_git_repo.
PullOutcome(err) ==
    CASE err = 1 -> "not_a_git_repository"
      [] err = 2 -> "fetch_failed"
      [] err = 3 -> "master_not_found"
      [] OTHER   -> "unknown_error"

\* The notification ended (a failure of it is logged); then the directory
\* check, the pull, the manifest check, the installer and the reload, up to
\* the next await.
UpdateNotified(h) ==
    LET m == arg[h]
    IN  /\ pc[h] = "p_notify"
        /\ \/ /\ ~isdir(fs, m)
              /\ Step(h, "p_return", "does_not_exist", 1, <<"isdir">>)
              /\ UNCHANGED evars
           \/ /\ isdir(fs, m)
              /\ \E env \in PullEnv, rev \in Revs, hasManifest, hasMaster \in BOOLEAN :
                   LET c == fs[m].commit
                       r == Repository(c, IF hasMaster THEN c ELSE 0, c, c)
                       pulled == pull_git_repo(fs, kernel_git, m, r, env, rev)
                       pl == [err |-> pulled.err,
                              fs |-> IF Contains(pulled.ops, "checkout")
                                     THEN [fs EXCEPT ![m].commit = pulled.repo.worktree,
                                                     ![m].manifest = hasManifest]
                                     ELSE fs]
                   IN  /\ rev \in {fs[m].commit, fs[m].commit + 1}
                       /\ env # "ok" => hasMaster
                       /\ rev = fs[m].commit => hasManifest = fs[m].manifest
                       /\ fs' = pl.fs
                       /\ \/ /\ pl.err # 0
                             /\ Step(h, "p_return", PullOutcome(pl.err), 1, <<"isdir", "pull_failed">>)
                             /\ UNCHANGED <<kernel_git, loaded, gateway, installed>>
                          \/ /\ pl.err = 0
                             /\ ~requirements_exists(pl.fs, m)
                             /\ Step(h, "p_return", "missing_manifest", 1, <<"isdir", "pull">>)
                             /\ UNCHANGED <<kernel_git, loaded, gateway, installed>>
                          \/ /\ pl.err = 0
                             /\ requirements_exists(pl.fs, m)
                             /\ UNCHANGED <<kernel_git, gateway>>
                             /\ \E pipOk, partly \in BOOLEAN, res \in LoadResults, stillActive \in BOOLEAN :
                                  /\ pipOk => ~partly
                                  /\ loaded[m] = 0 => ~stillActive
                                  /\ res = "ok" => ~stillActive
                                  /\ installed' = PipEnvAfter(installed, m, pipOk, partly)
                                  /\ loaded' = IF UpdateGoesOn(pipOk)
                                                THEN ReloadEffect(loaded, pl.fs, m, res, stillActive)
                                                ELSE loaded
                                  /\ IF ~UpdateGoesOn(pipOk)
                                     THEN Step(h, "p_return", "install_failed", 1,
                                               <<"isdir", "pull", "install_failed">>)
                                     ELSE \/ /\ res = "ok"
                                             /\ Step(h, "p_sync", "running", 0,
                                                     <<"isdir", "pull", IF pipOk THEN "install" ELSE "install_failed", "reload">>)
                                          \/ /\ res # "ok"
                                             /\ Step(h, "p_return", "reload_failed", 1,
                                                     <<"isdir", "pull", IF pipOk THEN "install" ELSE "install_failed", "reload_failed">>)

\* synchronise_interactions ended: a raise of it is reported as a failed
\* reload; else up to await paginator.send of the result.
UpdateSynced(h) ==
    /\ pc[h] = "p_sync"
    /\ UNCHANGED <<kernel_git, fs, loaded, installed>>
    /\ \E res \in SyncResults :
         /\ gateway' = SyncEffect(gateway, loaded, res)
         /\ \/ /\ res = "ok"
               /\ Step(h, "p_result", "updated", 0, <<"sync">>)
            \/ /\ res # "ok"
               /\ Step(h, "p_return", "sync_raised", 1, <<"sync_failed">>)

\* The result was sent, or sending it raised (then send_error).
UpdateResult(h) ==
    /\ pc[h] = "p_result"
    /\ UNCHANGED evars
    /\ \/ Step(h, "done", "updated", 1, <<>>)
       \/ Step(h, "p_return", "result_failed", 1, <<>>)

\* send_error returned: return.
UpdateReturn(h) ==
    /\ pc[h] = "p_return"
    /\ UNCHANGED evars
    /\ Step(h, "done", outcome[h], 0, <<>>)

(***************************************************************************)
(* cmd_module_list                                                         *)
(***************************************************************************)
\* The set comprehension over os.scandir("extensions"): the directories that
\* are repositories of their own (no entry is named __pycache__ here).
ScanModules(f, kg) == {n \in DOMAIN f : isdir(f, n) /\ validate_git_repo(f, kg, n)}

\* The call: there is no deferral, the scan runs at once; then up to the next
\* await, send_error for an empty set or create_embed.
StartList(h) ==
    /\ pc[h] \in {"idle", "done"}
    /\ op' = [op EXCEPT ![h] = "list"]
    /\ arg' = [arg EXCEPT ![h] = <<>>]
    /\ modules' = [modules EXCEPT ![h] = ScanModules(fs, kernel_git)]
    /\ embed' = [embed EXCEPT ![h] = {}]
    /\ steps' = [steps EXCEPT ![h] = <<"scan">>]
    /\ IF modules'[h] = {}
       THEN /\ pc' = [pc EXCEPT ![h] = "i_return"]
            /\ outcome' = [outcome EXCEPT ![h] = "no_modules"]
            /\ reports' = [reports EXCEPT ![h] = 1]
       ELSE /\ pc' = [pc EXCEPT ![h] = "i_embed"]
            /\ outcome' = [outcome EXCEPT ![h] = "running"]
            /\ reports' = [reports EXCEPT ![h] = 0]
    /\ UNCHANGED <<evars, call, is_download_in_progress>>

\* The field of a module is added when get_git_repo_info gives its commit;
\* a module whose info raises, or is invalid (no commit), is skipped.
ListField(f, kg, name, readable) == get_git_repo_info(f, kg, name, readable) = "ok"

\* create_embed returned or raised; then the loop over the modules scanned,
\* up to await paginator.send.  rd: the modules whose origin/master resolves.
ListEmbedded(h) ==
    /\ pc[h] = "i_embed"
    /\ UNCHANGED <<evars, op, arg, modules, call, is_download_in_progress>>
    /\ \/ /\ pc' = [pc EXCEPT ![h] = "i_return"]
          /\ outcome' = [outcome EXCEPT ![h] = "embed_failed"]
          /\ reports' = [reports EXCEPT ![h] = @ + 1]
          /\ UNCHANGED <<embed, steps>>
       \/ \E rd \in SUBSET modules[h] :
            /\ embed' = [embed EXCEPT ![h] =
                            {n \in modules[h] : ListField(fs, kernel_git, n, n \in rd)}]
            /\ steps' = [steps EXCEPT ![h] = Append(@, "info")]
            /\ pc' = [pc EXCEPT ![h] = "i_send"]
            /\ UNCHANGED <<outcome, reports>>

\* paginator.send returned, or raised (then send_error).
ListSent(h) ==
    /\ pc[h] = "i_send"
    /\ UNCHANGED <<evars, op, arg, lvars, steps, call>>
    /\ reports' = [reports EXCEPT ![h] = @ + 1]
    /\ \/ /\ pc' = [pc EXCEPT ![h] = "done"]
          /\ outcome' = [outcome EXCEPT ![h] = "listed"]
       \/ /\ pc' = [pc EXCEPT ![h] = "i_return"]
          /\ outcome' = [outcome EXCEPT ![h] = "list_failed"]

\* send_error returned: return.
ListReturn(h) ==
    /\ pc[h] = "i_return"
    /\ UNCHANGED <<evars, op, arg, lvars, steps, reports, outcome, call>>
    /\ pc' = [pc EXCEPT ![h] = "done"]

(***************************************************************************)
(* The specification: handlers interleave at their awaits.                 *)
(***************************************************************************)
Next ==
    \E h \in Handlers :
        \/ StartLoad(h)
        \/ LoadDeferred(h)
        \/ LoadNotified(h)
        \/ LoadSent(h)
        \/ LoadFailSynced(h)
        \/ LoadEdited(h)
        \/ LoadReported(h)
        \/ LoadReturn(h)
        \/ StartUnload(h)
        \/ UnloadDeferred(h)
        \/ UnloadNotified(h)
        \/ UnloadSynced(h)
        \/ UnloadReported(h)
        \/ UnloadReturn(h)
        \/ StartUpdate(h)
        \/ UpdateDeferred(h)
        \/ UpdateNotified(h)
        \/ UpdateSynced(h)
        \/ UpdateResult(h)
        \/ UpdateReturn(h)

Spec == Init /\ [][Next]_vars

(***************************************************************************)
(* The kernel started again after the process died in a Load between the   *)
(* clone and the dependency installation: the clone is on disk, with or    *)
(* without a manifest, nothing of it is installed, and main() has tried    *)
(* load_extension on it as on every repository directory of extensions/,   *)
(* with or without success.                                                *)
(***************************************************************************)
InitCrash ==
    /\ kernel_git \in BOOLEAN
    /\ \E hasManifest \in BOOLEAN :
         fs = [n \in ModuleNames |->
                 IF n = Cache THEN PlainDir
                 ELSE [kind |-> "repo", manifest |-> hasManifest, commit |-> 1]]
    /\ \E started \in BOOLEAN :
         loaded = [n \in ModuleNames |-> IF n = IdA /\ started THEN 1 ELSE 0]
    /\ gateway = {n \in ModuleNames : loaded[n] # 0}
    /\ installed = {}
    /\ pc = [h \in Handlers |-> "idle"]
    /\ op = [h \in Handlers |-> "none"]
    /\ arg = [h \in Handlers |-> <<>>]
    /\ reports = [h \in Handlers |-> 0]
    /\ steps = [h \in Handlers |-> <<>>]
    /\ outcome = [h \in Handlers |-> "none"]
    /\ modules = [h \in Handlers |-> {}]
    /\ embed = [h \in Handlers |-> {}]
    /\ is_download_in_progress = FALSE
    /\ call = NoCall

SpecCrash == InitCrash /\ [][Next]_vars

(***************************************************************************)
(* Listing after completed operations: Load and Unload of two modules,     *)
(* called one after the other, each completing, and List called between    *)
(* them.                                                                   *)
(***************************************************************************)
InitList ==
    /\ kernel_git \in BOOLEAN
    /\ fs = [n \in ListNames |-> IF n = Cache THEN PlainDir ELSE AbsentDir]
    /\ loaded = [n \in ListNames |-> 0]
    /\ gateway = {}
    /\ installed = {}
    /\ pc = [h \in Handlers |-> "idle"]
    /\ op = [h \in Handlers |-> "none"]
    /\ arg = [h \in Handlers |-> <<>>]
    /\ reports = [h \in Handlers |-> 0]
    /\ steps = [h \in Handlers |-> <<>>]
    /\ outcome = [h \in Handlers |-> "none"]
    /\ modules = [h \in Handlers |-> {}]
    /\ embed = [h \in Handlers |-> {}]
    /\ is_download_in_progress = FALSE
    /\ call = NoCall

\* No handler is in flight: the next operation is called on the return of
\* the one before.
Sequential == \A g \in Handlers : ~InFlight(g)

\* The step keeps handler h on the way to completing its operation.
Succeeds(h) == outcome'[h] \in {"running", "loaded", "unloaded"}

NextList ==
    \E h \in Handlers :
        \/ Sequential /\ \E u \in ListUrls : Call(h, "load", u, "l_defer")
        \/ LoadDeferred(h) /\ Succeeds(h)
        \/ LoadNotified(h) /\ Succeeds(h)
        \/ LoadSent(h) /\ Succeeds(h)
        \/ LoadEdited(h) /\ Succeeds(h)
        \/ LoadReturn(h) /\ Succeeds(h)
        \/ Sequential /\ \E n \in ListNames : Call(h, "unload", n, "u_defer")
        \/ UnloadDeferred(h) /\ Succeeds(h)
        \/ UnloadNotified(h) /\ Succeeds(h)
        \/ UnloadSynced(h) /\ Succeeds(h)
        \/ UnloadReported(h) /\ Succeeds(h)
        \/ Sequential /\ StartList(h)
        \/ ListEmbedded(h)
        \/ ListSent(h)
        \/ ListReturn(h)

SpecList == InitList /\ [][NextList]_vars

(***************************************************************************)
(* The helpers called on their own: no handler runs, the kernel's state    *)
(* stays as it is, and call holds the function, its input and its result.  *)
(***************************************************************************)
\* The kernel at rest.
AtRest ==
    /\ kernel_git = TRUE
    /\ fs = [n \in ModuleNames |-> IF n = Cache THEN PlainDir ELSE AbsentDir]
    /\ loaded = [n \in ModuleNames |-> 0]
    /\ gateway = {}
    /\ installed = {}
    /\ pc = [h \in Handlers |-> "idle"]
    /\ op = [h \in Handlers |-> "none"]
    /\ arg = [h \in Handlers |-> <<>>]
    /\ reports = [h \in Handlers |-> 0]
    /\ steps = [h \in Handlers |-> <<>>]
    /\ outcome = [h \in Handlers |-> "none"]
    /\ modules = [h \in Handlers |-> {}]
    /\ embed = [h \in Handlers |-> {}]
    /\ is_download_in_progress = FALSE

\* The helper fn is called on the input and returns (or raises): out.
Apply(fn, out) ==
    /\ call.fn = "none"
    /\ call' = [fn |-> fn, in |-> call.in, out |-> out]
    /\ UNCHANGED <<evars, hvars, lvars>>

InitNorm == AtRest /\ call \in {[fn |-> "none", in |-> u] : u \in NormUrls}

ApplyParseGitUrl == Apply("parse_git_url", parse_git_url(call.in))

ApplyGiturlParse == Apply("giturl_parse", giturl_parse(call.in))

NextNorm == ApplyParseGitUrl \/ ApplyGiturlParse

SpecNorm == InitNorm /\ [][NextNorm]_vars

(***************************************************************************)
(* The source-control helpers called on their own, on a path of every      *)
(* kind, the kernel's directory inside a repository or not.                *)
(***************************************************************************)
\* The repositories a path can resolve to.
Repositories ==
    {Repository(w, m, hd, t) : w \in Revs, m \in 0..MaxRev, hd \in Revs, t \in 0..MaxRev}

\* The path has a repository behind it: its own, or the kernel's found
\* walking up from a plain directory.
Resolves(kind, kg) == kind = "repo" \/ (kind = "plain" /\ kg)

\* A path extensions/<name> (absent, a plain directory, a repository of its
\* own), whether the kernel is in a repository, the repository the path
\* resolves to, what the pull meets, and the commit of the remote master.
PathInputs ==
    {x \in [kind : {"absent", "plain", "repo"}, kg : BOOLEAN,
            repo : Repositories \cup {Repository(0, 0, 0, 0)}, env : PullEnv, rev : Revs] :
        /\ (x.repo = Repository(0, 0, 0, 0)) = ~Resolves(x.kind, x.kg)
        /\ x.env = "no_remote_master" => x.repo.tracking = 0}

\* extensions/ with the path of the input in it.
PathFs(x) == [n \in {IdA} |-> [kind |-> x.kind, manifest |-> FALSE, commit |-> x.repo.worktree]]

InitPath == AtRest /\ call \in {[fn |-> "none", in |-> x] : x \in PathInputs}

ApplyPullGitRepo ==
    Apply("pull_git_repo",
          pull_git_repo(PathFs(call.in), call.in.kg, IdA, call.in.repo, call.in.env, call.in.rev))

ApplyGitrepoPull ==
    Apply("gitrepo_pull",
          gitrepo_pull(PathFs(call.in), call.in.kg, IdA, call.in.repo, call.in.env, call.in.rev))

ApplyValidateGitRepo ==
    Apply("validate_git_repo", [result |-> validate_git_repo(PathFs(call.in), call.in.kg, IdA)])

ApplyIsGitrepo ==
    Apply("is_gitrepo", [result |-> is_gitrepo(PathFs(call.in), call.in.kg, IdA)])

ApplyDeleteGitRepo ==
    Apply("delete_git_repo", [fs |-> delete_git_repo(PathFs(call.in), call.in.kg, IdA)])

ApplyGitrepoDelete ==
    Apply("gitrepo_delete", [fs |-> gitrepo_delete(PathFs(call.in), call.in.kg, IdA)])

NextPath ==
    \/ ApplyPullGitRepo \/ ApplyGitrepoPull \/ ApplyValidateGitRepo \/ ApplyIsGitrepo
    \/ ApplyDeleteGitRepo \/ ApplyGitrepoDelete

SpecPath == InitPath /\ [][NextPath]_vars

(***************************************************************************)
(* The event loop and the blocking calls.  The handlers are coroutines of  *)
(* one event loop, run by one thread: a handler gives the thread up at an  *)
(* await and nowhere else.  clone_git_repo, pull_git_repo and              *)
(* execute_pip_requirements are called as plain functions, so the thread   *)
(* is inside the call until it returns.  Here a blocking call is entered   *)
(* in one step and left in another; which request is served, and what the  *)
(* calls come to, is kept to what the scheduling needs.                    *)
(***************************************************************************)
\* The positions of a handler inside a blocking call.
Blocking == {"cloning", "fetching", "installing"}

\* The thread of the event loop is in no blocking call.
LoopFree == \A h \in Handlers : pc[h] \notin Blocking

\* Handler h moves to p; st is appended to its calls.
LoopStep(h, p, st) ==
    /\ pc' = [pc EXCEPT ![h] = p]
    /\ steps' = [steps EXCEPT ![h] = @ \o st]
    /\ UNCHANGED <<evars, op, arg, reports, outcome, lvars, call>>

\* The loop runs the handler of a request that came in, up to its first
\* await (ctx.defer; for List, create_embed).
LoopCall(h) ==
    /\ LoopFree
    /\ pc[h] \in {"idle", "done"}
    /\ \E o \in {"load", "update", "list"} : op' = [op EXCEPT ![h] = o]
    /\ pc' = [pc EXCEPT ![h] = "awaiting"]
    /\ steps' = [steps EXCEPT ![h] = <<>>]
    /\ UNCHANGED <<evars, arg, reports, outcome, lvars, call>>

\* The loop resumes a handler whose awaits before the work are over: Load
\* goes on into clone_git_repo, Update into pull_git_repo, List to its end.
LoopResume(h) ==
    /\ LoopFree
    /\ pc[h] = "awaiting"
    /\ LoopStep(h, CASE op[h] = "load" -> "cloning"
                     [] op[h] = "update" -> "fetching"
                     [] OTHER -> "done", <<>>)

\* clone_git_repo returns: the clone failed or the manifest is missing (then
\* up to await send_error), or execute_pip_requirements is entered.
LoopCloneEnds(h) ==
    /\ pc[h] = "cloning"
    /\ \/ LoopStep(h, "reporting", <<"clone_failed">>)
       \/ LoopStep(h, "reporting", <<"clone", "delete">>)
       \/ LoopStep(h, "installing", <<"clone">>)

\* pull_git_repo returns: a code other than 0 or a missing manifest (then up
\* to await send_error), or execute_pip_requirements is entered.
LoopFetchEnds(h) ==
    /\ pc[h] = "fetching"
    /\ \/ LoopStep(h, "reporting", <<"pull_failed">>)
       \/ LoopStep(h, "reporting", <<"pull">>)
       \/ LoopStep(h, "installing", <<"pull">>)

\* execute_pip_requirements returns; then up to the next await.
LoopInstallEnds(h) ==
    /\ pc[h] = "installing"
    /\ \/ LoopStep(h, "reporting", <<"install">>)
       \/ LoopStep(h, "reporting", <<"install_failed">>)

\* The loop resumes a handler after its last await: return.
LoopReturn(h) ==
    /\ LoopFree
    /\ pc[h] = "reporting"
    /\ LoopStep(h, "done", <<>>)

\* The steps of handler h.
HandlerLoop(h) ==
    \/ LoopCall(h) \/ LoopResume(h) \/ LoopCloneEnds(h)
    \/ LoopFetchEnds(h) \/ LoopInstallEnds(h) \/ LoopReturn(h)

InitLoop == AtRest /\ call = NoCall

NextLoop == \E h \in Handlers : HandlerLoop(h)

SpecLoop == InitLoop /\ [][NextLoop]_vars

(***************************************************************************)
(* The reports.  Every send_error and send_success of Load, Unload, Update *)
(* and Info that a run can reach, as what its message is built from: the   *)
(* fixed text, the module name where the message holds it, and the text of *)
(* the exception where the message holds it.                               *)
(***************************************************************************)
Site(o, out, text, names, detailed) ==
    [op |-> o, outcome |-> out, text |-> text, names |-> names, detailed |-> detailed]

LoadSites ==
    {Site("load", "notify_failed", "Failed to create notification embed", FALSE, FALSE),
     Site("load", "notify_raised", "Failed to send notifications", FALSE, FALSE),
     Site("load", "invalid_url", "Invalid Git repository URL.", FALSE, FALSE),
     Site("load", "already_loaded", "Module is already loaded.", TRUE, FALSE),
     Site("load", "clone_failed", "Failed to clone module.", TRUE, FALSE),
     Site("load", "missing_manifest", "Module is missing required requirements.txt file.", TRUE, FALSE),
     Site("load", "install_failed", "Failed to install dependencies for module.", TRUE, FALSE),
     Site("load", "loaded", "Loaded module.", TRUE, FALSE),
     Site("load", "load_failed", "Failed to load module. The repository has been removed.", TRUE, FALSE)}

UnloadSites ==
    {Site("unload", "not_found", "Module not found or is not a valid git repository.", TRUE, FALSE),
     Site("unload", "info_RuntimeError", "Failed to get module information: ", FALSE, TRUE),
     Site("unload", "info_OSError", "Failed to access module: ", FALSE, TRUE),
     Site("unload", "info_raised", "Failed to get module information", FALSE, FALSE),
     Site("unload", "unload_ImportError", "Failed to unload module due to import error. Error: ", TRUE, TRUE),
     Site("unload", "unload_ExtensionException", "Failed to unload module. Error: ", TRUE, TRUE),
     Site("unload", "unload_Exception", "Failed to unload module cleanly, but proceeding with deletion. Error: ", TRUE, TRUE),
     Site("unload", "unloaded", "Unloaded module and cleaned up resources.", TRUE, FALSE)}

UpdateSites ==
    {Site("update", "info_RuntimeError", "Failed to access module information: ", FALSE, TRUE),
     Site("update", "info_raised", "Failed to get module information", FALSE, FALSE),
     Site("update", "does_not_exist", "Module does not exist.", TRUE, FALSE),
     Site("update", "not_a_git_repository", "Module update failed: Not a git repository.", FALSE, FALSE),
     Site("update", "fetch_failed", "Module update failed: Failed to fetch from remote.", FALSE, FALSE),
     Site("update", "master_not_found", "Module update failed: Master branch not found.", FALSE, FALSE),
     Site("update", "missing_manifest", "Missing requirements.txt. Update aborted.", FALSE, FALSE),
     Site("update", "reload_ExtensionException", "Failed to reload module: ", FALSE, TRUE),
     Site("update", "reload_Exception", "Failed to reload module", FALSE, FALSE),
     Site("update", "changelog_OSError", "Failed to read update information", FALSE, FALSE),
     Site("update", "result_InteractionException", "Failed to display update results", FALSE, FALSE),
     Site("update", "result_Exception", "Failed to complete update process", FALSE, FALSE)}

InfoSites ==
    {Site("info", "not_found", "Module not found.", FALSE, FALSE),
     Site("info", "info_RuntimeError", "Failed to access module information: ", FALSE, TRUE),
     Site("info", "info_raised", "Failed to get module information", FALSE, FALSE),
     Site("info", "embed_failed", "Failed to display module information", FALSE, FALSE),
     Site("info", "embed_raised", "Failed to show module information", FALSE, FALSE)}

ReportSites == LoadSites \cup UnloadSites \cup UpdateSites \cup InfoSites

\* The texts of the exceptions raised.
Details == {<<"d", "1">>, <<"d", "2">>}

\* The message of a report, the f-string of its site: the fixed text, the
\* module name put into it, the text of the exception put into it (<<>>: it
\* holds none).
report_message(site, module, detail) ==
    [text |-> site.text,
     module |-> IF site.names THEN module ELSE <<>>,
     detail |-> IF site.detailed THEN detail ELSE <<>>]

ReportInputs == [site : ReportSites, module : ModuleNames, detail : Details]

InitReport == AtRest /\ call \in {[fn |-> "none", in |-> x] : x \in ReportInputs}

ApplySendReport ==
    Apply("send_error",
          [message |-> report_message(call.in.site, call.in.module, call.in.detail)])

NextReport == ApplySendReport

SpecReport == InitReport /\ [][NextReport]_vars

(***************************************************************************)
(* The fields of cmd_module_list: the loop over the modules scanned, run   *)
(* on its own on a set of modules cloned from given URLs.                  *)
(***************************************************************************)
RECURSIVE SplitStrFrom(_, _, _)
\* The segments of s between the occurrences of the string sep, read from
\* the left, with cur the segment read so far.
SplitStrFrom(s, sep, cur) ==
    IF Len(s) < Len(sep) THEN <<cur \o s>>
    ELSE IF SubSeq(s, 1, Len(sep)) = sep
         THEN <<cur>> \o SplitStrFrom(SubSeq(s, Len(sep) + 1, Len(s)), sep, <<>>)
         ELSE SplitStrFrom(Tail(s), sep, Append(cur, Head(s)))

\* display_name of cmd_module_list: what follows the last "_s_" of the
\* directory name, or the whole name when it holds none.
display_name(name) ==
    LET sep == <<"_", "s", "_">>
        parts == SplitStrFrom(name, sep, <<>>)
    IN  IF Len(parts) > 1 THEN parts[Len(parts)] ELSE name

\* str(commit.id): forty hexadecimal digits, here all the digit of the
\* revision but the first and the eighth.
commit_id(rev) ==
    [i \in 1..40 |-> IF i \in {1, 8} THEN "f" ELSE IF rev = 1 THEN "1" ELSE "2"]

\* embed.add_field for the module cloned from u, at revision rev.
list_field(u, rev) ==
    [name |-> display_name(parse_git_url(u).parsed),
     commit |-> SubSeq(commit_id(rev), 1, 7),
     url |-> u]

\* The URLs of the modules listed: one-label hosts and every path.
ListedUrls == {ComponentUrl(host, path) : host \in {<<"u">>, <<"-">>}, path \in Components}

\* One or two modules installed, those of them whose get_git_repo_info does
\* not raise, and the revision they are at.
FieldInputs ==
    UNION {[modules : {{u, v}}, readable : SUBSET {u, v}, rev : Revs] : u, v \in ListedUrls}

InitField == AtRest /\ call \in {[fn |-> "none", in |-> x] : x \in FieldInputs}

\* The loop of cmd_module_list: a field for each module whose info was read.
ApplyListFields ==
    Apply("cmd_module_list", [fields |-> [u \in call.in.readable |-> list_field(u, call.in.rev)]])

NextField == ApplyListFields

SpecField == InitField /\ [][NextField]_vars

(***************************************************************************)
(* cmd_review_download.  The handlers are tasks of one event loop: the     *)
(* code between two awaits runs without interruption, and a task that is   *)
(* cancelled gets CancelledError, which is no Exception, at the await it   *)
(* is suspended at.                                                        *)
(***************************************************************************)
\* The check left out: every request is admitted.
download_admitted_always(flag) == TRUE

\* `if is_download_in_progress:` sends the busy message and returns.
download_admitted(flag) == ~flag

\* The awaits of an admitted request: ctx.defer, the opening of the
\* temporary file, ctx.send of the archive, send_error, the closing of the
\* temporary file; all but the first are inside the try whose finally
\* clause resets the flag.
DownloadAwaits == {"d_defer", "d_tmp", "d_send", "d_error", "d_close"}

\* The handler moves to the await p (or returns) with the outcome out,
\* having sent rep messages and made the calls st, the flag being set to
\* flag.
DownloadStep(h, p, out, rep, st, flag) ==
    /\ pc' = [pc EXCEPT ![h] = p]
    /\ outcome' = [outcome EXCEPT ![h] = out]
    /\ reports' = [reports EXCEPT ![h] = @ + rep]
    /\ steps' = [steps EXCEPT ![h] = @ \o st]
    /\ is_download_in_progress' = flag
    /\ UNCHANGED <<evars, op, arg, modules, embed, call>>

\* The call, up to the first await: the flag is read and, when it is not
\* set, set, with no await in between.
StartDownload(h) ==
    /\ pc[h] \in {"idle", "done"}
    /\ op' = [op EXCEPT ![h] = "download"]
    /\ arg' = [arg EXCEPT ![h] = <<>>]
    /\ reports' = [reports EXCEPT ![h] = 0]
    /\ steps' = [steps EXCEPT ![h] = <<>>]
    /\ IF download_admitted(is_download_in_progress)
       THEN /\ pc' = [pc EXCEPT ![h] = "d_defer"]
            /\ outcome' = [outcome EXCEPT ![h] = "running"]
            /\ is_download_in_progress' = TRUE
       ELSE /\ pc' = [pc EXCEPT ![h] = "d_busy"]
            /\ outcome' = [outcome EXCEPT ![h] = "busy"]
            /\ UNCHANGED is_download_in_progress
    /\ UNCHANGED <<evars, modules, embed, call>>

\* The busy message was sent, or sending it raised (logged): return.
DownloadBusySent(h) ==
    /\ pc[h] = "d_busy"
    /\ \E sent \in {0, 1} :
         DownloadStep(h, "done", "busy", sent, <<>>, is_download_in_progress)

\* ctx.defer returned, and the temporary file is being opened; or it raised
\* an Exception: the flag is reset and the handler returns.
DownloadDeferred(h) ==
    /\ pc[h] = "d_defer"
    /\ \/ DownloadStep(h, "d_tmp", "running", 0, <<"defer">>, is_download_in_progress)
       \/ DownloadStep(h, "done", "defer_failed", 0, <<"defer_failed">>, FALSE)

\* The temporary file was opened: compress_temp, then ctx.send of the
\* archive, or send_error when compress_temp raised. Or the opening raised:
\* the finally clause resets the flag.
DownloadTempOpened(h) ==
    /\ pc[h] = "d_tmp"
    /\ \/ DownloadStep(h, "d_send", "running", 0, <<"compress">>, is_download_in_progress)
       \/ DownloadStep(h, "d_error", "compress_failed", 0, <<"compress_failed">>,
                       is_download_in_progress)
       \/ DownloadStep(h, "done", "tmp_failed", 0, <<"tmp_failed">>, FALSE)

\* ctx.send returned, and the temporary file is being closed; or it raised:
\* send_error.
DownloadSent(h) ==
    /\ pc[h] = "d_send"
    /\ \/ DownloadStep(h, "d_close", "sent", 1, <<"send">>, is_download_in_progress)
       \/ DownloadStep(h, "d_error", "send_failed", 0, <<"send_failed">>, is_download_in_progress)

\* send_error returned: the temporary file is being closed.
DownloadErrorSent(h) ==
    /\ pc[h] = "d_error"
    /\ DownloadStep(h, "d_close", outcome[h], 1, <<>>, is_download_in_progress)

\* The temporary file was closed (or closing it raised): the finally clause
\* resets the flag; return.
DownloadClosed(h) ==
    /\ pc[h] = "d_close"
    /\ DownloadStep(h, "done", outcome[h], 0, <<>>, FALSE)

\* The task is cancelled at the await it is suspended at: CancelledError
\* passes the except clauses; the finally clause resets the flag when the
\* await is inside its try.
DownloadCancelled(h) ==
    /\ pc[h] \in DownloadAwaits \cup {"d_busy"}
    /\ DownloadStep(h, "done", IF pc[h] = "d_busy" THEN "busy" ELSE "cancelled", 0,
                    <<"cancelled">>,
                    IF pc[h] \in DownloadAwaits \ {"d_defer"}
                    THEN FALSE ELSE is_download_in_progress)

InitDownload == AtRest /\ call = NoCall

NextDownload ==
    \E h \in Handlers :
        \/ StartDownload(h)
        \/ DownloadBusySent(h)
        \/ DownloadDeferred(h)
        \/ DownloadTempOpened(h)
        \/ DownloadSent(h)
        \/ DownloadErrorSent(h)
        \/ DownloadClosed(h)
        \/ DownloadCancelled(h)

SpecDownload == InitDownload /\ [][NextDownload]_vars

(***************************************************************************)
(* The archive of the running code: compress_directory of compressutil.py  *)
(* and compress_temp of cmd_review_download, called on a directory tree.   *)
(* A tree is the set of the paths under the directory, a path the sequence *)
(* of its component names (what name.split("/") gives), a name a string of *)
(* characters.                                                             *)
(***************************************************************************)
\* name_determine of compress_filter: the name starts with a dot, or is
\* venv, or is __pycache__.
name_determine(x) ==
    \/ x[1] = "."
    \/ x = <<"v", "e", "n", "v">>
    \/ x = <<"_", "_", "p", "y", "c", "a", "c", "h", "e", "_", "_">>

\* compress_filter(tarinfo): the entry is kept when no component of its
\* name is excluded.
compress_filter(p) == ~\E i \in DOMAIN p : name_determine(p[i])

\* The test of compress_temp: no part is a member of
\* excluded = {".", "venv", "__pycache__"}.
not_excluded(parts) ==
    ~\E i \in DOMAIN parts :
        parts[i] \in {<<".">>, <<"v", "e", "n", "v">>,
                      <<"_", "_", "p", "y", "c", "a", "c", "h", "e", "_", "_">>}

RECURSIVE tar_add(_, _, _)
\* tar.add(p, arcname, filter) of function fn: nothing when the filter
\* drops the entry, else the entry and, for a directory, tar.add of each of
\* its children.
tar_add(fn, tree, p) ==
    LET kept == IF fn = "compress_directory" THEN compress_filter(p) ELSE not_excluded(p)
        children == {q \in tree : Len(q) = Len(p) + 1 /\ SubSeq(q, 1, Len(p)) = p}
    IN  IF ~kept THEN {}
        ELSE {p} \cup UNION {tar_add(fn, tree, c) : c \in children}

\* compress_directory(path, filename): the entries of the archive.
compress_directory(tree) ==
    UNION {tar_add("compress_directory", tree, p) : p \in {q \in tree : Len(q) = 1}}

\* compress_temp(filename), base being the components of the directory of
\* main.py: an entry of the directory is added when no part of its path,
\* from the root on, is excluded.
compress_temp(base, tree) ==
    UNION {tar_add("compress_temp", tree, p) :
             p \in {q \in tree : Len(q) = 1 /\ not_excluded(base \o q)}}

\* The names of the entries: a, .e, venv, venvs, __pycache__
EntryNames ==
    {<<"a">>, <<".", "e">>, <<"v", "e", "n", "v">>, <<"v", "e", "n", "v", "s">>,
     <<"_", "_", "p", "y", "c", "a", "c", "h", "e", "_", "_">>}

\* The paths of at most MaxLen components.
TreePaths == UNION {[1..k -> EntryNames] : k \in 1..MaxLen}

\* The path p and the directories above it.
Ancestors(p) == {SubSeq(p, 1, k) : k \in 1..Len(p)}

\* The directory of main.py (/a or /venv/a) and the tree under it: two
\* paths and the directories above them.
TreeInputs ==
    {[base |-> b, tree |-> Ancestors(p) \cup Ancestors(q)] :
        b \in {<<<<"a">>>>, <<<<"v", "e", "n", "v">>, <<"a">>>>}, p \in TreePaths, q \in TreePaths}

InitTree == AtRest /\ call \in {[fn |-> "none", in |-> x] : x \in TreeInputs}

ApplyCompressDirectory ==
    Apply("compress_directory", [entries |-> compress_directory(call.in.tree)])

ApplyCompressTemp ==
    Apply("compress_temp", [entries |-> compress_temp(call.in.base, call.in.tree)])

NextTree == ApplyCompressDirectory \/ ApplyCompressTemp

SpecTree == InitTree /\ [][NextTree]_vars

(***************************************************************************)
(* The dependency installer called on its own.                             *)
(***************************************************************************)
\* What pip_main(args) comes to: an exit status, or an exception.
ExitStatuses == {0, 1, 2, 23}

ToolExceptions == {"CalledProcessError", "OSError", "Exception"}

ToolResults ==
    {[raised |-> FALSE, status |-> s, exception |-> "none"] : s \in ExitStatuses}
    \cup {[raised |-> TRUE, status |-> 0, exception |-> e] : e \in ToolExceptions}

\* extensions/<name>/requirements.txt
requirements_path(name) == <<"extensions", name, "requirements.txt">>

\* What an installer function comes to: the arguments it gave the tool, and
\* the value it returned or the exception that left it.
PipResult(args, raised, result) == [args |-> args, raised |-> raised, result |-> result]

\* The argument list of pip_main.
pip_args(file_path, install) ==
    (IF install THEN <<"install", "-U">> ELSE <<"uninstall", "-y">>) \o <<"-r", file_path>>

\* execute_pip_requirements(file_path, install) of main.py: not pip_main(args),
\* False when pip_main raises.
execute_pip_requirements(file_path, install, tool) ==
    IF tool.raised THEN PipResult(pip_args(file_path, install), FALSE, FALSE)
    ELSE PipResult(pip_args(file_path, install), FALSE, tool.status = 0)

\* piprequirements_operate(file_path, install) of moduleutil.py: ret == 0,
\* with no handler around pip_main.
piprequirements_operate(file_path, install, tool) ==
    IF tool.raised THEN PipResult(pip_args(file_path, install), TRUE, FALSE)
    ELSE PipResult(pip_args(file_path, install), FALSE, IF tool.status = 0 THEN TRUE ELSE FALSE)

PipInputs == [file_path : {requirements_path(n) : n \in ListNames}, install : BOOLEAN, tool : ToolResults]

InitPip == AtRest /\ call \in {[fn |-> "none", in |-> x] : x \in PipInputs}

ApplyExecutePipRequirements ==
    Apply("execute_pip_requirements",
          execute_pip_requirements(call.in.file_path, call.in.install, call.in.tool))

ApplyPiprequirementsOperate ==
    Apply("piprequirements_operate",
          piprequirements_operate(call.in.file_path, call.in.install, call.in.tool))

NextPip == ApplyExecutePipRequirements \/ ApplyPiprequirementsOperate

SpecPip == InitPip /\ [][NextPip]_vars

(***************************************************************************)
(* The repository info record and the two functions that build it, called  *)
(* on their own.                                                           *)
(***************************************************************************)
\* A pygit2.Commit: commit_time in seconds since the epoch, committer.offset
\* in minutes.
Commit(t, o) == [commit_time |-> t, offset |-> o]

NoCommit == [commit_time |-> 0, offset |-> 0]

\* The dataclass GitRepoInfo.
GitRepoInfo(modifications, remote_url, current_commit, remote_head_commit, changelog) ==
    [modifications |-> modifications, remote_url |-> remote_url,
     current_commit |-> current_commit, remote_head_commit |-> remote_head_commit,
     CHANGELOG |-> changelog]

\* The offset added as if it were seconds.
get_timestamp_offset_in_seconds(commit) == commit.commit_time + commit.offset

\* GitRepoInfo._get_timestamp(commit)
get_timestamp(commit) == commit.commit_time + commit.offset * 60

\* datetime.fromtimestamp(ts, timezone.utc).strftime("%Z %Y-%m-%dT%H:%M:%S.%f"):
\* the zone name, the date (as the day number since the epoch), the hour,
\* the minute, the second and the microseconds.
strftime_utc(ts) ==
    [Z |-> "UTC", date |-> ts \div 86400, H |-> (ts % 86400) \div 3600,
     M |-> (ts % 3600) \div 60, S |-> ts % 60, f |-> 0]

\* GitRepoInfo.get_utc_time, get_remote_utc_time of main.py
get_utc_time(info) == strftime_utc(get_timestamp(info.current_commit))

get_remote_utc_time(info) == strftime_utc(get_timestamp(info.remote_head_commit))

\* GitRepoInfo.get_UTC_time, get_remote_UTC_time of moduleutil.py
get_UTC_time(info) ==
    strftime_utc(info.current_commit.commit_time + info.current_commit.offset * 60)

get_remote_UTC_time(info) ==
    strftime_utc(info.remote_head_commit.commit_time + info.remote_head_commit.offset * 60)

\* What an info function comes to: it raised, or it returned (info, valid).
InfoResult(raised, valid, info) == [raised |-> raised, valid |-> valid, info |-> info]

\* GitRepoInfo(0, "", None, None, "") of main.py, None of moduleutil.py.
EmptyInfo == GitRepoInfo(0, "", NoCommit, NoCommit, <<>>)

NoInfo == "None"

\* The record built from the repository of the input.
InfoOf(x, content) ==
    GitRepoInfo(IF x.modified THEN 1 ELSE 0, "origin.url", x.current, x.remote, content)

\* get_git_repo_info(name) of main.py with the record it returns: the guard,
\* then Repository(repo_path), remotes["origin"] and revparse("origin/master"),
\* each of which raises when what it asks for is not there, then the
\* CHANGELOG, read as "" when open raises.
get_git_repo_info_of(x) ==
    IF discover_repository(PathFs(x), x.kg, IdA) = discover_cwd(x.kg)
    THEN InfoResult(FALSE, FALSE, EmptyInfo)
    ELSE IF x.kind # "repo" \/ ~x.origin \/ ~x.remote_master
    THEN InfoResult(TRUE, FALSE, EmptyInfo)
    ELSE InfoResult(FALSE, TRUE,
                    InfoOf(x, IF x.changelog.exists THEN x.changelog.content ELSE <<>>))

\* gitrepo_info(name) of moduleutil.py: the guard (None, False), then
\* Repository(repo_path), open of the CHANGELOG outside any try, then
\* diff("origin/master") and remotes["origin"].
gitrepo_info(x) ==
    IF discover_repository(PathFs(x), x.kg, IdA) = discover_cwd(x.kg)
    THEN InfoResult(FALSE, FALSE, NoInfo)
    ELSE IF x.kind # "repo" \/ ~x.changelog.exists \/ ~x.remote_master \/ ~x.origin
    THEN InfoResult(TRUE, FALSE, EmptyInfo)
    ELSE InfoResult(FALSE, TRUE, InfoOf(x, x.changelog.content))

\* Commit times (the first second of the second day, the one of the worked
\* example, the last second of an hour) and committer offsets in minutes.
CommitTimes == {86400, 1700000000, 1700002799}

Offsets == {-300, 0, 330}

Commits == {Commit(t, o) : t \in CommitTimes, o \in Offsets}

\* The CHANGELOG of a working copy: absent, empty, or with text.
Changelogs ==
    {[exists |-> FALSE, content |-> <<>>], [exists |-> TRUE, content |-> <<>>],
     [exists |-> TRUE, content |-> <<"v", "1">>]}

\* A path extensions/<name> as for the pull, and in its repository: whether
\* there is a remote origin and a reference origin/master, whether files
\* differ from origin/master, the CHANGELOG, the commit of HEAD and the
\* commit of origin/master.
InfoInputs ==
    {x \in [kind : {"absent", "plain", "repo"}, kg : BOOLEAN, repo : {Repository(0, 0, 0, 0)},
            origin : BOOLEAN, remote_master : BOOLEAN, modified : BOOLEAN,
            changelog : Changelogs, current : Commits, remote : Commits] :
        /\ x.remote_master => x.origin
        /\ x.kind # "repo"
           => (x.origin /\ x.remote_master /\ ~x.modified /\ ~x.changelog.exists
               /\ x.current = x.remote)}

InitInfo == AtRest /\ call \in {[fn |-> "none", in |-> x] : x \in InfoInputs}

ApplyGetGitRepoInfo == Apply("get_git_repo_info", get_git_repo_info_of(call.in))

ApplyGitrepoInfo == Apply("gitrepo_info", gitrepo_info(call.in))

\* The two display times of the record of main.py.
ApplyGetUtcTime ==
    LET info == InfoOf(call.in, <<>>)
    IN  Apply("get_utc_time", [local |-> get_utc_time(info), remote |-> get_remote_utc_time(info)])

\* The two display times of the record of moduleutil.py.
ApplyGetUTCTime ==
    LET info == InfoOf(call.in, <<>>)
    IN  Apply("get_UTC_time", [local |-> get_UTC_time(info), remote |-> get_remote_UTC_time(info)])

NextInfo == ApplyGetGitRepoInfo \/ ApplyGitrepoInfo \/ ApplyGetUtcTime \/ ApplyGetUTCTime

SpecInfo == InitInfo /\ [][NextInfo]_vars

(***************************************************************************)
(* Properties of the lifecycle.                                            *)
(***************************************************************************)
\* The call x is among the calls st.
Has(st, x) == \E i \in DOMAIN st : st[i] = x

\* This step is the return of handler h.
Returns(h) == pc[h] # "done" /\ pc'[h] = "done"

\* This step is a step of handler h.
Moves(h) == pc'[h] # pc[h]

\* No lifecycle operation is in flight.
AllIdle == \A h \in Handlers : ~InFlight(h)

\* The outcomes with which an operation has completed.
Completed == {"loaded", "unloaded", "updated"}

\* C1: when a Load whose clone succeeded and whose manifest is present, but
\* whose dependency installation failed, returns, the module directory does
\* not exist and the module's code is not loaded.
C1_InstallFailureDeletesClone ==
    [][\A h \in Handlers :
          (Returns(h) /\ op[h] = "load" /\ outcome'[h] = "install_failed")
          => (fs'[Ident(h)].kind = "absent" /\ loaded'[Ident(h)] = 0)]_vars

\* C2: when a Load whose load step raised returns, the module directory does
\* not exist, the module is not active in the loader, and the dispatcher was
\* resynchronized after the failure, so that it lists none of the module's
\* commands.
C2_LoadFailureRollsBack ==
    [][\A h \in Handlers :
          (Returns(h) /\ op[h] = "load" /\ Has(steps'[h], "load_failed"))
          => /\ fs'[Ident(h)].kind = "absent"
             /\ loaded'[Ident(h)] = 0
             /\ Has(steps'[h], "sync")
             /\ Ident(h) \notin gateway']_vars

\* An Update has ended on a missing manifest (the documented inconsistency).
UpdateGap == \E h \in Handlers : op[h] = "update" /\ outcome[h] = "missing_manifest"

\* C3: whenever no lifecycle operation is in flight, every module directory
\* under the modules root belongs to a module whose code is active in the
\* loader (except after an Update that ended on a missing manifest).
C3_NoOrphanDirectory ==
    (AllIdle /\ ~UpdateGap)
    => \A n \in ModuleNames : fs[n].kind = "repo" => loaded[n] # 0

\* Handler h has reached the code-unload step of Unload.
ReachedUnload(h) == Has(steps[h], "unload") \/ Has(steps[h], "unload_failed")

C5_ExactlyOneReportOnAbort ==
    \A h \in Handlers :
        (pc[h] = "done" /\ outcome[h] \notin Completed) => reports[h] = 1

\* C6: at most one Load, Unload or Update is in flight for a module identity.
C6_OneOperationPerIdentity ==
    \A h1, h2 \in Handlers :
        (h1 # h2 /\ InFlight(h1) /\ InFlight(h2) /\ Ident(h1) # <<>>)
        => Ident(h1) # Ident(h2)

\* Handler h is a Load in flight of the identity m.
LoadInFlight(h, m) == InFlight(h) /\ op[h] = "load" /\ Ident(h) = m /\ m # <<>>

CloneAttempted(h) == Has(steps[h], "clone") \/ Has(steps[h], "clone_failed")

Effects == {"clone", "clone_failed", "install", "install_failed", "load",
            "load_failed", "reload", "reload_failed", "delete", "sync", "sync_failed"}

\* C8: a Load that finds extensions/<identity> present reports 'already
\* loaded' and leaves the working copy, the dependency environment and the
\* loader as they are: no clone, no installer call, no load, no delete.
C8_LoadOfExistingDirChangesNothing ==
    [][\A h \in Handlers :
          (op[h] = "load" /\ Moves(h))
          => /\ (pc[h] = "l_sending" /\ isdir(fs, Ident(h)) /\ outcome'[h] # "send_failed")
                => (outcome'[h] = "already_loaded" /\ reports'[h] = 1)
             /\ outcome'[h] = "already_loaded"
                => /\ UNCHANGED <<fs, loaded, installed, gateway>>
                   /\ \A e \in Effects : ~Has(steps'[h], e)]_vars

\* C8, its case: a Load of an identity whose directory exists (and whose
\* code is loaded) has returned with the 'already loaded' report.
C8_Witness ==
    \E h \in Handlers :
        /\ pc[h] = "done" /\ op[h] = "load" /\ outcome[h] = "already_loaded"
        /\ reports[h] = 1
        /\ fs[Ident(h)].kind = "repo" /\ loaded[Ident(h)] # 0

\* C9: an Update never leaves a module that was active in the loader with its
\* code unloaded: no step of an Update turns an active module inactive.
C9_UpdateKeepsModuleActive ==
    [][\A h \in Handlers :
          (op[h] = "update" /\ Moves(h) /\ InFlight(h) /\ loaded[arg[h]] # 0)
          => loaded'[arg[h]] # 0]_vars

\* C10: whenever no lifecycle operation is in flight, a module's code is
\* active in the loader only if its working copy exists on disk.
C10_ActiveOnlyWithWorkingCopy ==
    AllIdle => \A n \in ModuleNames : loaded[n] # 0 => fs[n].kind = "repo"

(***************************************************************************)
(* Properties of the list.                                                 *)
(***************************************************************************)
\* The identities loaded and not unloaded since: those the loader holds.
LoadedModules == {n \in DOMAIN loaded : loaded[n] # 0}

\* C11: after Load and Unload operations that each completed, a List that
\* shows its embed shows exactly the identities loaded and not unloaded
\* since, and a List that finds none reports it and returns.
C11_ListShowsLoadedModules ==
    [][\A h \in Handlers :
          (Returns(h) /\ op[h] = "list" /\ outcome'[h] \in {"listed", "no_modules"})
          => /\ embed'[h] = LoadedModules
             /\ (outcome'[h] = "no_modules") = (LoadedModules = {})
             /\ reports'[h] = 1]_vars

\* What does hold: the scan finds exactly those identities.
C11_ScanFindsLoadedModules ==
    [][\A h \in Handlers :
          (pc[h] \in {"idle", "done"} /\ op'[h] = "list" /\ pc'[h] \notin {"idle", "done"})
          => modules'[h] = LoadedModules]_vars

\* A List has scanned after Load(A), Load(B), Unload(A): only B is loaded.
C11_Witness ==
    \E h, g \in Handlers :
        /\ op[h] = "list" /\ pc[h] = "i_embed"
        /\ modules[h] = {IdB}
        /\ op[g] = "unload" /\ arg[g] = IdA /\ outcome[g] = "unloaded"
        /\ loaded[IdA] = 0 /\ loaded[IdB] # 0

(***************************************************************************)
(* Properties of the normalizers.                                          *)
(***************************************************************************)
\* A normalizer has been run.
Normalized == call.fn \in {"parse_git_url", "giturl_parse"}

\* The rule of validity, for a URL whose netloc is its host: scheme https,
\* a host that is not empty, of at least two labels, the last one com, and
\* a path ending in .git.
ValidUrl(u) ==
    /\ ~urlsplit_raises(u)
    /\ u.scheme = "https"
    /\ u.netloc # <<>>
    /\ Len(Split(u.netloc, ".")) >= 2
    /\ Split(u.netloc, ".")[Len(Split(u.netloc, "."))] = COM
    /\ EndsWith(u.path, DotGit)

\* C12: each normalizer reports valid exactly for the URLs the rule accepts,
\* and for every other URL reports valid = false with an empty identity.
C12_ValidExactlyByRule ==
    Normalized
    => /\ ~call.out.raised
       /\ call.out.validated = ValidUrl(call.in)
       /\ ~call.out.validated => call.out.parsed = <<>>

\* What does hold: every URL that urlsplit splits is judged by the rule, by
\* both normalizers, and parse_git_url judges every URL so.
C12_ValidByRuleWhenSplit ==
    (Normalized /\ (call.fn = "parse_git_url" \/ ~urlsplit_raises(call.in)))
    => /\ ~call.out.raised
       /\ call.out.validated = ValidUrl(call.in)
       /\ ~call.out.validated => call.out.parsed = <<>>

\* http://g.com/a.git and https://g.com/a have been rejected.
C12_Witness ==
    /\ Normalized
    /\ ~call.out.validated
    /\ call.in.netloc = <<"g", ".", "c", "o", "m">>
    /\ \/ call.in.scheme = "http" /\ call.in.path = <<"/", "a", ".", "g", "i", "t">>
       \/ call.in.scheme = "https" /\ call.in.path = <<"/", "a">>

\* The host of a URL with its labels www and com left out, as a string.
FilteredHost(u) ==
    LET other(x) == x \notin {WWW, COM}
    IN  Join(SelectSeq(Split(u.netloc, "."), other), ".")

\* The path of a URL without its leading separator and its .git suffix.
StrippedPath(u) == SubSeq(u.path, 2, Len(u.path) - 4)

Unescaped(x) ==
    CASE x = "u" -> "_"
      [] x = "s" -> "/"
      [] x = "d" -> "."
      [] x = "h" -> "-"
      [] OTHER   -> "?"

RECURSIVE Unescape(_)
\* The string an escaped string stands for, read from the left.
Unescape(s) ==
    IF s = <<>> THEN <<>>
    ELSE IF Head(s) # "_" THEN <<Head(s)>> \o Unescape(Tail(s))
    ELSE IF Len(s) < 3 THEN <<"?">>
    ELSE <<Unescaped(s[2])>> \o Unescape(SubSeq(s, 4, Len(s)))

RECURSIVE SplitIdentity(_, _)
\* The escaped host (after host, read so far) and the escaped path of an
\* identity: the separator is the first underscore, at the start of a
\* sequence, that another underscore follows.
SplitIdentity(s, host) ==
    IF s = <<>> THEN <<host \o <<"?">>, <<>>>>
    ELSE IF Head(s) # "_" THEN SplitIdentity(Tail(s), Append(host, Head(s)))
    ELSE IF Len(s) >= 2 /\ s[2] = "_" THEN <<host, SubSeq(s, 3, Len(s))>>
    ELSE IF Len(s) < 3 THEN <<host \o <<"?">>, <<>>>>
    ELSE SplitIdentity(SubSeq(s, 4, Len(s)), host \o SubSeq(s, 1, 3))

\* The (host string, path string) pair an identity was built from.
Decode(id) == <<Unescape(SplitIdentity(id, <<>>)[1]), Unescape(SplitIdentity(id, <<>>)[2])>>

\* C14: the escaping and the concatenation lose nothing: from an identity the
\* (host string, path string) pair it was built from is read back, so no two
\* different pairs give one identity; for giturl_parse, which filters no
\* label, the host string is the whole netloc. In particular the hosts a-b
\* and a_b give different identities.
C14_IdentityDecodes ==
    /\ (Normalized /\ call.out.validated)
       => Decode(call.out.parsed) =
            <<IF call.fn = "parse_git_url" THEN FilteredHost(call.in) ELSE call.in.netloc,
              StrippedPath(call.in)>>
    /\ \A f \in {"parse", "giturl"} :
          LET id(u) == IF f = "parse" THEN parse_git_url(u).parsed ELSE giturl_parse(u).parsed
          IN  id(ComponentUrl(<<"u", "-", "u">>, <<"u">>)) # id(ComponentUrl(<<"u", "_", "u">>, <<"u">>))

\* An identity has been built from a host and a path that both hold an
\* underscore.
C14_Witness ==
    /\ Normalized /\ call.out.validated
    /\ call.in \in ComponentUrls
    /\ Contains(FilteredHost(call.in), "_")
    /\ Contains(StrippedPath(call.in), "_")
    /\ Contains(StrippedPath(call.in), "/")

(***************************************************************************)
(* Properties of the source-control helpers.                               *)
(***************************************************************************)
\* A pull has been run.
Pulled == call.fn \in {"pull_git_repo", "gitrepo_pull"}

\* C15: a pull never raises and returns 0, 1, 2 or 3: 1 when the path is not
\* a repository distinct from the kernel's, 2 when origin cannot be fetched,
\* 3 when the repository lacks the remote-tracking or the local master.
C15_PullReturnsTheCode ==
    Pulled
    => /\ ~call.out.raised
       /\ call.out.err \in 0..3
       /\ call.in.kind # "repo" => call.out.err = 1
       /\ (call.in.kind = "repo" /\ call.in.env \in {"no_origin", "fetch_failed"})
          => call.out.err = 2
       /\ (call.in.kind = "repo" /\ \/ call.in.env = "no_remote_master"
                                    \/ call.in.env = "ok" /\ call.in.repo.master = 0)
          => call.out.err = 3

\* What does hold: pull_git_repo never raises and returns one of the four
\* codes, 1 for every path that exists and is no repository of its own, 2 for
\* a failed fetch and 3 for a missing master reference.
C15_PullGitRepoReturnsACode ==
    call.fn = "pull_git_repo"
    => /\ ~call.out.raised
       /\ call.out.err \in 0..3
       /\ call.in.kind = "plain" => call.out.err = 1
       /\ (call.in.kind = "repo" /\ call.in.env = "fetch_failed") => call.out.err = 2
       /\ (call.in.kind = "repo" /\ \/ call.in.env = "no_remote_master"
                                    \/ call.in.env = "ok" /\ call.in.repo.master = 0)
          => call.out.err = 3

\* A pull fetched and checked out the remote master of a repository that has
\* no local master, and returned 3.
C15_Witness ==
    /\ Pulled /\ ~call.out.raised
    /\ call.in.kind = "repo" /\ call.in.env = "ok" /\ call.in.repo.master = 0
    /\ call.out.err = 3

C17_FailedPullChangesNothing ==
    (Pulled /\ ~call.out.raised /\ call.out.err # 0) => call.out.repo = call.in.repo

\* What does hold: a failed pull moves neither the local master nor HEAD,
\* and a pull that returns 1, or fails before the fetch succeeded, changes
\* nothing.
C17_FailedPullMovesNoBranch ==
    (Pulled /\ ~call.out.raised /\ call.out.err # 0)
    => /\ call.out.repo.master = call.in.repo.master
       /\ call.out.repo.head = call.in.repo.head
       /\ ~Contains(call.out.ops, "fetch") => call.out.repo = call.in.repo

\* A pull failed on a repository whose remote master is newer.
C17_Witness ==
    /\ Pulled /\ ~call.out.raised /\ call.out.err # 0
    /\ call.in.kind = "repo"
    /\ call.in.rev # call.in.repo.worktree

\* An is_module check has been run.
Validated == call.fn \in {"validate_git_repo", "is_gitrepo"}

\* C20: is_module is true exactly for a path that is a repository of its
\* own: false for a path that resolves to the kernel's repository and for
\* one that resolves to none, a path that does not exist included.
C20_IsModuleIffOwnRepository ==
    Validated => call.out.result = (call.in.kind = "repo")

\* What does hold: so it is for every path that exists, and for every path
\* when the kernel's directory is in no repository.
C20_IsModuleIffOwnRepositoryWhenPresent ==
    (Validated /\ (call.in.kind # "absent" \/ ~call.in.kg))
    => call.out.result = (call.in.kind = "repo")

\* is_module was asked of a path that does not exist, the kernel being in a
\* repository.
C20_Witness == Validated /\ call.in.kind = "absent" /\ call.in.kg

(***************************************************************************)
(* Properties of Update.                                                   *)
(***************************************************************************)
\* The outcomes of an Update that stopped at the directory check or at the
\* pull.
UpdateAborts == {"does_not_exist", "not_a_git_repository", "fetch_failed",
                 "master_not_found", "unknown_error"}

\* The calls of the dependency installer and of the loader's reload.
InstallOrReload == {"install", "install_failed", "reload", "reload_failed"}

\* C18: an Update that stops because the directory does not exist or because
\* the pull returned a code other than 0 calls neither the installer nor the
\* reload, leaves the loaded set (and the dependency environment and the
\* registry) as it is, and sends one report naming the reason of its code:
\* 'does not exist' only for a missing directory, 'not a git repository'
\* only for a directory that is no repository of its own, a fetch or a
\* master reason only for one that is, and never 'unknown error'.
C18_UpdateAbortChangesNothingLoaded ==
    [][\A h \in Handlers :
          (op[h] = "update" /\ pc[h] = "p_notify" /\ Moves(h))
          => /\ ~isdir(fs, arg[h]) => outcome'[h] = "does_not_exist"
             /\ (isdir(fs, arg[h]) /\ ~validate_git_repo(fs, kernel_git, arg[h]))
                => outcome'[h] = "not_a_git_repository"
             /\ Has(steps'[h], "pull_failed") => outcome'[h] \in UpdateAborts
             /\ outcome'[h] \in UpdateAborts
                => /\ UNCHANGED <<loaded, installed, gateway>>
                   /\ \A e \in InstallOrReload : ~Has(steps'[h], e)
                   /\ reports'[h] = reports[h] + 1
                   /\ pc'[h] = "p_return"
                   /\ outcome'[h] # "unknown_error"
                   /\ outcome'[h] = "does_not_exist" => ~isdir(fs, arg[h])
                   /\ outcome'[h] = "not_a_git_repository"
                      => (isdir(fs, arg[h]) /\ ~validate_git_repo(fs, kernel_git, arg[h]))
                   /\ outcome'[h] \in {"fetch_failed", "master_not_found"}
                      => validate_git_repo(fs, kernel_git, arg[h])]_vars

\* An Update of a loaded module has returned after a pull that failed on
\* the fetch or on a master reference, the module still loaded.
C18_Witness ==
    \E h \in Handlers :
        /\ pc[h] = "done" /\ op[h] = "update"
        /\ outcome[h] \in {"fetch_failed", "master_not_found"}
        /\ Has(steps[h], "pull_failed")
        /\ reports[h] = 1
        /\ loaded[arg[h]] # 0

\* C19: an Update whose pull succeeded and that finds no manifest in the
\* working copy stops there with one report: no installer call, no reload,
\* the loaded code, the dependency environment and the registry as before,
\* the directory kept, at the commit the pull checked out.
C19_UpdateWithoutManifestKeepsOldCode ==
    [][\A h \in Handlers :
          (op[h] = "update" /\ pc[h] = "p_notify" /\ Moves(h))
          => /\ (Has(steps'[h], "pull") /\ ~fs'[arg[h]].manifest)
                => outcome'[h] = "missing_manifest"
             /\ outcome'[h] = "missing_manifest"
                => /\ UNCHANGED <<loaded, installed, gateway>>
                   /\ \A e \in InstallOrReload : ~Has(steps'[h], e)
                   /\ Has(steps'[h], "pull")
                   /\ reports'[h] = reports[h] + 1
                   /\ pc'[h] = "p_return"
                   /\ fs'[arg[h]].kind = "repo"
                   /\ fs'[arg[h]].commit >= fs[arg[h]].commit
                   /\ \A n \in DOMAIN fs : n # arg[h] => fs'[n] = fs[n]]_vars

\* An Update has returned on the missing manifest of a loaded module whose
\* working copy is now at a newer commit than the loaded code.
C19_Witness ==
    \E h \in Handlers :
        /\ pc[h] = "done" /\ op[h] = "update" /\ outcome[h] = "missing_manifest"
        /\ loaded[arg[h]] # 0
        /\ fs[arg[h]].kind = "repo"
        /\ fs[arg[h]].commit > loaded[arg[h]]

(***************************************************************************)
(* Properties of delete.                                                   *)
(***************************************************************************)
\* A delete has been run.
Deleted == call.fn \in {"delete_git_repo", "gitrepo_delete"}

InstallOrLoad == {"install", "install_failed", "load", "load_failed"}

\* C22: a Load whose clone fails stops with one failure report, calls
\* neither the installer nor the loader, and leaves no directory of the
\* identity: the working copies, the loaded set, the dependency environment
\* and the registry are as before, and a scan for modules does not find it.
C22_FailedCloneLeavesNothing ==
    [][\A h \in Handlers :
          (op[h] = "load" /\ pc[h] = "l_sending" /\ Moves(h))
          => /\ Has(steps'[h], "clone_failed") <=> outcome'[h] = "clone_failed"
             /\ outcome'[h] = "clone_failed"
                => /\ pc'[h] = "l_report"
                   /\ reports'[h] = reports[h] + 1
                   /\ \A e \in InstallOrLoad : ~Has(steps'[h], e)
                   /\ ~isdir(fs', Ident(h))
                   /\ Ident(h) \notin ScanModules(fs', kernel_git')
                   /\ UNCHANGED <<fs, loaded, installed, gateway>>]_vars

\* A Load has returned after a failed clone, and there is no directory of
\* its identity.
C22_Witness ==
    \E h \in Handlers :
        /\ pc[h] = "done" /\ op[h] = "load" /\ outcome[h] = "clone_failed"
        /\ Has(steps[h], "clone_failed") /\ reports[h] = 1
        /\ ~isdir(fs, Ident(h))

Informed == call.fn \in {"get_git_repo_info", "gitrepo_info"}

\* The module of the input is valid: a repository of its own with a remote
\* origin and a reference origin/master.
ValidModule(x) == x.kind = "repo" /\ x.origin /\ x.remote_master

\* C24: info on a valid module that has no CHANGELOG file does not raise and
\* returns valid = true with an empty changelog.
C24_InfoWithoutChangelog ==
    (Informed /\ ValidModule(call.in) /\ ~call.in.changelog.exists)
    => /\ ~call.out.raised
       /\ call.out.valid
       /\ call.out.info.CHANGELOG = <<>>

\* What does hold: so it is for get_git_repo_info, and for both functions
\* the changelog of a result is the content of the file when there is one.
C24_GetGitRepoInfoWithoutChangelog ==
    /\ (call.fn = "get_git_repo_info" /\ ValidModule(call.in) /\ ~call.in.changelog.exists)
       => /\ ~call.out.raised
          /\ call.out.valid
          /\ call.out.info.CHANGELOG = <<>>
    /\ (Informed /\ ValidModule(call.in) /\ call.in.changelog.exists)
       => /\ ~call.out.raised
          /\ call.out.valid
          /\ call.out.info.CHANGELOG = call.in.changelog.content

\* get_git_repo_info has returned for a valid module without CHANGELOG.
C24_Witness ==
    /\ call.fn = "get_git_repo_info" /\ ValidModule(call.in) /\ ~call.in.changelog.exists
    /\ call.out.valid

\* A display time has been computed.
Displayed == call.fn \in {"get_utc_time", "get_UTC_time"}

\* r is the display as UTC of a number of seconds since the epoch: its day,
\* hour, minute and second add up to it, each within its range.
IsUtcRendering(r, seconds) ==
    /\ r.Z = "UTC" /\ r.f = 0
    /\ r.date >= 0 /\ r.H \in 0..23 /\ r.M \in 0..59 /\ r.S \in 0..59
    /\ r.date * 86400 + r.H * 3600 + r.M * 60 + r.S = seconds

\* C29: the displayed time of the local commit and of the remote commit is
\* the UTC rendering of commit_time + committer offset in minutes * 60, in
\* both implementations.
C29_DisplayTimeAddsOffsetMinutes ==
    Displayed
    => /\ IsUtcRendering(call.out.local,
                         call.in.current.commit_time + call.in.current.offset * 60)
       /\ IsUtcRendering(call.out.remote,
                         call.in.remote.commit_time + call.in.remote.offset * 60)

\* The display times of the commit of the worked example (1700000000 at
\* -300 minutes, that is 1699982000: day 19675, 17:13:20) beside a remote
\* commit of another offset.
C29_Witness ==
    /\ Displayed
    /\ call.in.current = Commit(1700000000, -300)
    /\ call.in.remote.offset # -300
    /\ call.out.local = [Z |-> "UTC", date |-> 19675, H |-> 17, M |-> 13, S |-> 20, f |-> 0]

(***************************************************************************)
(* Properties of the dependency installer.                                 *)
(***************************************************************************)
\* An installer function has been run.
Applied == call.fn \in {"execute_pip_requirements", "piprequirements_operate"}

\* The arguments the tool is to be run with.
ToolArguments(x) ==
    IF x.install THEN <<"install", "-U", "-r", x.file_path>>
    ELSE <<"uninstall", "-y", "-r", x.file_path>>

\* C25: apply runs the tool with install -U -r path, or uninstall -y -r
\* path, returns true exactly when the exit status of the tool is zero, and
\* returns false, without raising, on every failure of the tool.
C25_ApplyReturnsToolSuccess ==
    Applied
    => /\ call.out.args = ToolArguments(call.in)
       /\ ~call.out.raised
       /\ call.out.result = (~call.in.tool.raised /\ call.in.tool.status = 0)

\* What does hold: so it is for execute_pip_requirements, and for
\* piprequirements_operate whenever the tool returns an exit status.
C25_ApplyReturnsExitStatusZero ==
    (Applied /\ (call.fn = "execute_pip_requirements" \/ ~call.in.tool.raised))
    => /\ call.out.args = ToolArguments(call.in)
       /\ ~call.out.raised
       /\ call.out.result = (~call.in.tool.raised /\ call.in.tool.status = 0)

\* An uninstall has been run and the tool ended with a status other than 0.
C25_Witness ==
    /\ Applied /\ ~call.in.install
    /\ ~call.in.tool.raised /\ call.in.tool.status # 0
    /\ ~call.out.result

(***************************************************************************)
(* Properties of the scheduling.                                           *)
(***************************************************************************)
\* C26: while a handler is in a clone, a fetch or a dependency installation,
\* every other handler can take a step: a request can be taken up, an await
\* that is over can be resumed.
C26_OthersRunDuringBlockingCall ==
    \A h, h2 \in Handlers :
        (pc[h] \in Blocking /\ h2 # h) => ENABLED HandlerLoop(h2)

\* What does hold: while a handler is in a blocking call no other handler
\* takes a step, and at most one handler is in a blocking call.
C26_BlockingCallHoldsTheLoop ==
    [][\A h, h2 \in Handlers :
          (pc[h] \in Blocking /\ h2 # h)
          => (pc'[h2] = pc[h2] /\ pc[h2] \notin Blocking)]_vars

\* A handler is inside clone_git_repo while another has an await behind it
\* and waits to be resumed.
C26_Witness ==
    \E h, h2 \in Handlers :
        /\ h2 # h
        /\ pc[h] = "cloning" /\ op[h] = "load"
        /\ pc[h2] = "awaiting" /\ op[h2] = "list"

(***************************************************************************)
(* Properties of the reports.                                              *)
(***************************************************************************)
\* A report has been sent.
Reported == call.fn = "send_error"

\* C27: the message of a report depends on the operation, the module and
\* the outcome alone: whatever the text of the exception raised, the message
\* sent is the same.
C27_MessageIndependentOfDetail ==
    Reported
    => \A d \in Details :
           report_message(call.in.site, call.in.module, d) = call.out.message

\* The outcomes whose message ends with the text of the exception.
DetailedOutcomes ==
    {"info_RuntimeError", "info_OSError", "unload_ImportError",
     "unload_ExtensionException", "unload_Exception", "reload_ExtensionException"}

\* What does hold: so it is for every report but those of an exception of
\* get_git_repo_info other than the unexpected ones, of unload_extension,
\* and of an ExtensionException of reload_extension in Update.
C27_MessageIndependentOfDetailElsewhere ==
    (Reported /\ call.in.site.outcome \notin DetailedOutcomes)
    => \A d \in Details :
           report_message(call.in.site, call.in.module, d) = call.out.message

\* Update has reported an ExtensionException of reload_extension.
C27_Witness ==
    /\ Reported
    /\ call.in.site.op = "update" /\ call.in.site.outcome = "reload_ExtensionException"
    /\ call.out.message.detail = call.in.detail

(***************************************************************************)
(* Properties of Load after a crash.                                       *)
(***************************************************************************)
\* C28: with the directory of a clone left on disk by a process that died
\* before the installation, every Load of the identity that finds the
\* directory is rejected with 'already loaded' and changes nothing; a Load
\* changes or removes no directory but one it cloned in this call; and a
\* directory is removed only by an Unload or by the Load that cloned it.
C28_LeftoverCloneRejectsLoad ==
    [][/\ \A h \in Handlers :
            (op[h] = "load" /\ Moves(h))
            => /\ (pc[h] = "l_sending" /\ isdir(fs, Ident(h)) /\ outcome'[h] # "send_failed")
                  => /\ outcome'[h] = "already_loaded"
                     /\ reports'[h] = 1
                     /\ UNCHANGED <<fs, loaded, installed>>
               /\ ~Has(steps[h], "clone")
                  => \A n \in ModuleNames : isdir(fs, n) => fs'[n] = fs[n]
       /\ \A n \in ModuleNames :
            (isdir(fs, n) /\ ~isdir(fs', n))
            => \E h \in Handlers :
                   /\ Moves(h) /\ Ident(h) = n
                   /\ op[h] = "unload" \/ (op[h] = "load" /\ Has(steps[h], "clone"))]_vars

\* After the restart a Load of the identity has returned with 'already
\* loaded', no Unload has been called, and the clone is on disk with
\* nothing of it installed.
C28_Witness ==
    \E h \in Handlers :
        /\ pc[h] = "done" /\ op[h] = "load" /\ outcome[h] = "already_loaded"
        /\ Ident(h) = IdA
        /\ \A h2 \in Handlers : h2 # h => op[h2] = "none"
        /\ fs[IdA].kind = "repo" /\ IdA \notin installed

(***************************************************************************)
(* Properties of the order of Load.                                        *)
(***************************************************************************)
\* In the calls st every b comes after an a.
Before(st, a, b) ==
    \A j \in DOMAIN st : st[j] = b => \E i \in 1..(j - 1) : st[i] = a

\* C30: in every Load the calls come in the order normalize, existence
\* check, clone, (manifest check,) install, load: the installer is called
\* only after a clone that succeeded and with the manifest in the clone, the
\* loader only after the installer succeeded.
C30_LoadStepsInOrder ==
    [][\A h \in Handlers :
          (op[h] = "load" /\ Moves(h))
          => /\ Before(steps'[h], "parse", "isdir")
             /\ Before(steps'[h], "isdir", "clone")
             /\ Before(steps'[h], "isdir", "clone_failed")
             /\ Before(steps'[h], "clone", "install")
             /\ Before(steps'[h], "clone", "install_failed")
             /\ Before(steps'[h], "install", "load")
             /\ Before(steps'[h], "install", "load_failed")
             /\ (pc[h] = "l_sending" /\ (Has(steps'[h], "install") \/ Has(steps'[h], "install_failed")))
                => /\ ~Has(steps'[h], "clone_failed")
                   /\ fs'[Ident(h)].kind = "repo"
                   /\ fs'[Ident(h)].manifest
             /\ (Has(steps'[h], "load") \/ Has(steps'[h], "load_failed"))
                => ~Has(steps'[h], "install_failed")]_vars

\* A Load has returned having made all five calls, in this order.
C30_Witness ==
    \E h \in Handlers :
        /\ pc[h] = "done" /\ op[h] = "load" /\ outcome[h] = "loaded"
        /\ Len(steps[h]) >= 5
        /\ SubSeq(steps[h], 1, 5) = <<"parse", "isdir", "clone", "install", "load">>

(***************************************************************************)
(* Properties of the order of Unload.                                      *)
(***************************************************************************)
\* In the calls st an a, then a b, then the deletion come in this order.
UnloadSyncDelete(st, as, bs) ==
    \E i, j, k \in DOMAIN st :
        /\ i < j /\ j < k
        /\ st[i] \in as /\ st[j] \in bs /\ st[k] = "delete"

\* C31: in every Unload that reached unload_extension, the registry is
\* synchronised after the unload attempt and before the clone is deleted,
\* whether the unload succeeded or raised.
C31_SyncBetweenUnloadAndDelete ==
    \A h \in Handlers :
        (op[h] = "unload" /\ ReachedUnload(h) /\ Has(steps[h], "delete"))
        => UnloadSyncDelete(steps[h], {"unload", "unload_failed"}, {"sync", "sync_failed"})

\* What does hold: so it is after an unload_extension that succeeded; after
\* one that raised there is no synchronisation at all.
C31_SyncAfterCleanUnloadOnly ==
    \A h \in Handlers :
        op[h] = "unload"
        => /\ (Has(steps[h], "unload") /\ Has(steps[h], "delete"))
              => UnloadSyncDelete(steps[h], {"unload"}, {"sync", "sync_failed"})
           /\ Has(steps[h], "unload_failed")
              => ~(Has(steps[h], "sync") \/ Has(steps[h], "sync_failed"))

\* An Unload has returned after an unload_extension that raised and the
\* deletion of the clone.
C31_Witness ==
    \E h \in Handlers :
        /\ pc[h] = "done" /\ op[h] = "unload" /\ outcome[h] = "unload_raised"
        /\ Has(steps[h], "unload_failed") /\ Has(steps[h], "delete")
        /\ ~Has(steps[h], "sync") /\ ~Has(steps[h], "sync_failed")
        /\ ~isdir(fs, arg[h])

(***************************************************************************)
(* C32                                                                     *)
(***************************************************************************)
\* The installer has run in the Update of handler h.
UpdateInstalled(h) ==
    /\ op[h] = "update"
    /\ Has(steps[h], "install") \/ Has(steps[h], "install_failed")

\* C32: in Update a failure result of the installer does not abort the
\* operation: once the pull succeeded with the manifest present and the
\* installer has run, with success or with failure, the reload has been
\* attempted in the same step, and after a reload that did not raise the
\* resynchronization is the next thing the handler does.
C32_InstallerFailureDoesNotAbort ==
    \A h \in Handlers :
        UpdateInstalled(h)
        => /\ Has(steps[h], "pull")
           /\ Has(steps[h], "reload") \/ Has(steps[h], "reload_failed")
           /\ Has(steps[h], "reload")
              => \/ pc[h] = "p_sync"
                 \/ Has(steps[h], "sync")
                 \/ Has(steps[h], "sync_failed")
           /\ outcome[h] # "install_failed"

\* An Update whose installer failed and that went on to reload the module
\* and to resynchronize the dispatcher.
C32_Witness ==
    \E h \in Handlers :
        /\ op[h] = "update"
        /\ pc[h] = "done"
        /\ outcome[h] = "updated"
        /\ Has(steps[h], "install_failed")
        /\ Has(steps[h], "reload")
        /\ Has(steps[h], "sync")

(***************************************************************************)
(* C33                                                                     *)
(***************************************************************************)
\* The host of a URL whose last label is com, with that last label and
\* every label www left out, as a string.
HostWithoutWwwAndTrailingCom(u) ==
    LET uns == Split(u.netloc, ".")
        notWww(x) == x # WWW
    IN  Join(SelectSeq(SubSeq(uns, 1, Len(uns) - 1), notWww), ".")

\* C33 as stated: the host part of the identity is the host's labels with
\* every label www and only the trailing label com left out, joined with
\* dots and escaped; a com label that is not the last one is kept.
C33_HostDropsWwwAndTrailingCom ==
    (Normalized /\ call.out.validated)
    => call.out.parsed =
         translate(HostWithoutWwwAndTrailingCom(call.in)) \o <<"_", "_">>
           \o translate(StrippedPath(call.in))

\* What does hold: parse_git_url leaves out every label that is www or com,
\* wherever it stands, so it agrees with the statement exactly on the hosts
\* with no com label before the last; giturl_parse leaves out no label at
\* all. Labels that only contain www or com are kept by both.
C33_HostDropsEveryWwwAndCom ==
    (Normalized /\ call.out.validated)
    => LET uns == Split(call.in.netloc, ".")
           stated == translate(HostWithoutWwwAndTrailingCom(call.in)) \o <<"_", "_">>
                       \o translate(StrippedPath(call.in))
       IN  /\ call.fn = "parse_git_url"
              => /\ call.out.parsed = translate(FilteredHost(call.in)) \o <<"_", "_">>
                                         \o translate(StrippedPath(call.in))
                 /\ (call.out.parsed = stated)
                    = (\A i \in 1..(Len(uns) - 1) : uns[i] # COM)
           /\ call.fn = "giturl_parse"
              => /\ call.out.parsed = translate(call.in.netloc) \o <<"_", "_">>
                                         \o translate(StrippedPath(call.in))
                 /\ call.out.parsed # stated

\* https://com.g.com/a.git has been normalized by parse_git_url to g__a, the
\* identity of https://g.com/a.git, and wwww.com keeps its label.
C33_Witness ==
    /\ call.fn = "parse_git_url" /\ call.out.validated
    /\ call.in.netloc = <<"c", "o", "m", ".", "g", ".", "c", "o", "m">>
    /\ call.in.path = <<"/", "a", ".", "g", "i", "t">>
    /\ call.out.parsed = IdA
    /\ parse_git_url([call.in EXCEPT !.netloc = <<"w", "w", "w", "w", ".", "c", "o", "m">>]).parsed
         = <<"w", "w", "w", "w", "_", "_", "a">>

(***************************************************************************)
(* C34                                                                     *)
(***************************************************************************)
\* What the other normalizer returns for the URL of the call.
OtherNormalizer(c) ==
    IF c.fn = "parse_git_url" THEN giturl_parse(c.in) ELSE parse_git_url(c.in)

\* The name the docstring of giturl_parse gives for https://[www.]H.com/P.git:
\* escape(H)__escape(P), H the host without a leading www label and without
\* its last label com.
DocumentedName(u) ==
    LET uns == Split(u.netloc, ".")
        h == IF uns[1] = WWW THEN SubSeq(uns, 2, Len(uns) - 1) ELSE SubSeq(uns, 1, Len(uns) - 1)
    IN  translate(Join(h, ".")) \o <<"_", "_">> \o translate(StrippedPath(u))

\* C34 as stated: for every URL giturl_parse and parse_git_url return the
\* same validity flag and the same folder name, and for a valid URL the name
\* is the one the docstring gives.
C34_NormalizersAgree ==
    Normalized
    => /\ ~call.out.raised
       /\ call.out.validated = OtherNormalizer(call).validated
       /\ call.out.parsed = OtherNormalizer(call).parsed
       /\ call.out.validated => call.out.parsed = DocumentedName(call.in)

\* What does hold: the two agree on the validity flag for every URL that
\* urlsplit splits, and on the empty name of an invalid URL; for a valid URL
\* they never agree on the name, giturl_parse keeping the labels www and
\* com; parse_git_url gives the documented name for every host with no label
\* com before the last and no label www after the first.
C34_NormalizersAgreeOnValidityOnly ==
    Normalized
    => /\ ~urlsplit_raises(call.in)
          => /\ ~call.out.raised
             /\ call.out.validated = OtherNormalizer(call).validated
       /\ ~call.out.validated => call.out.parsed = <<>> /\ OtherNormalizer(call).parsed = <<>>
       /\ call.out.validated
          => /\ call.out.parsed # OtherNormalizer(call).parsed
             /\ giturl_parse(call.in).parsed # DocumentedName(call.in)
             /\ LET uns == Split(call.in.netloc, ".")
                IN  (\A i \in 1..(Len(uns) - 1) : uns[i] # COM /\ (i > 1 => uns[i] # WWW))
                    => parse_git_url(call.in).parsed = DocumentedName(call.in)

\* giturl_parse has normalized https://www.g.com/a.git to www_d_g_d_com__a
\* where parse_git_url gives g__a.
C34_Witness ==
    /\ call.fn = "giturl_parse" /\ call.out.validated
    /\ call.in = UrlWwwA
    /\ call.out.parsed = translate(UrlWwwA.netloc) \o <<"_", "_", "a">>
    /\ parse_git_url(call.in).parsed = IdA

(***************************************************************************)
(* C35                                                                     *)
(***************************************************************************)
\* C35: when a pull returns 0, the working tree, refs/heads/master and HEAD
\* are all at the commit of refs/remotes/origin/master just fetched, so the
\* info read from the repository right after has its local commit equal to
\* its remote commit.
C35_PullOkLeavesAllAtRemoteMaster ==
    (Pulled /\ ~call.out.raised /\ call.out.err = 0)
    => /\ call.out.repo.tracking = call.in.rev
       /\ call.out.repo.worktree = call.out.repo.tracking
       /\ call.out.repo.master = call.out.repo.tracking
       /\ call.out.repo.head = call.out.repo.tracking
       /\ info_commits(call.out.repo).current_commit
            = info_commits(call.out.repo).remote_head_commit

\* pull_git_repo returned 0 on a repository whose working tree, master and
\* HEAD were all behind the remote master.
C35_Witness ==
    /\ call.fn = "pull_git_repo" /\ call.out.err = 0
    /\ call.in.repo.worktree < call.in.rev
    /\ call.in.repo.master < call.in.rev
    /\ call.in.repo.head < call.in.rev
    /\ call.in.repo.tracking < call.in.rev
    /\ call.out.repo = Repository(call.in.rev, call.in.rev, call.in.rev, call.in.rev)

(***************************************************************************)
(* C36                                                                     *)
(***************************************************************************)
\* The fields of a List have been built.
Listed == call.fn = "cmd_module_list"

\* C36 as stated: each field of List carries the identity of its module (the
\* string Unload, Update and Info take), the first seven characters of its
\* commit id and its origin URL, and no two modules are shown under the same
\* name.
C36_ListFieldsCarryIdentity ==
    Listed
    => /\ \A u \in DOMAIN call.out.fields :
            /\ call.out.fields[u].name = parse_git_url(u).parsed
            /\ call.out.fields[u].commit = SubSeq(commit_id(call.in.rev), 1, 7)
            /\ call.out.fields[u].url = u
       /\ \A u, v \in DOMAIN call.out.fields :
            u # v => call.out.fields[u].name # call.out.fields[v].name

\* What does hold: the commit and the URL are as stated; the name is the
\* identity exactly when the identity holds no "_s_", that is when the path
\* of the URL holds no separator, and then it is shared with no other module.
C36_ListFieldsCarryIdentityOfFlatPaths ==
    Listed
    => \A u \in DOMAIN call.out.fields :
          /\ call.out.fields[u].commit = SubSeq(commit_id(call.in.rev), 1, 7)
          /\ Len(call.out.fields[u].commit) = 7
          /\ call.out.fields[u].url = u
          /\ (call.out.fields[u].name = parse_git_url(u).parsed) = ~Contains(StrippedPath(u), "/")
          /\ \A v \in DOMAIN call.out.fields :
                (u # v /\ ~Contains(StrippedPath(u), "/") /\ ~Contains(StrippedPath(v), "/"))
                => call.out.fields[u].name # call.out.fields[v].name

\* The modules of https://u.com//u.git and https://-.com//u.git, two
\* identities, have both been listed under the name u.
C36_Witness ==
    /\ Listed
    /\ \E u, v \in DOMAIN call.out.fields :
          /\ u.netloc = <<"u", ".", "c", "o", "m">>
          /\ v.netloc = <<"-", ".", "c", "o", "m">>
          /\ StrippedPath(u) = <<"/", "u">>
          /\ StrippedPath(v) = <<"/", "u">>
          /\ parse_git_url(u).parsed # parse_git_url(v).parsed
          /\ call.out.fields[u].name = <<"u">>
          /\ call.out.fields[v].name = <<"u">>

(***************************************************************************)
(* C37                                                                     *)
(***************************************************************************)
\* The handler h is past the check of the flag, and has not returned.
InDownload(h) == op[h] = "download" /\ pc[h] \in DownloadAwaits

\* C37: at most one download is in progress: a request that arrives while
\* the flag is set goes to the busy message, leaves the flag alone and
\* starts no compression before it returns; a request that arrives while it
\* is not set sets it; and after every step at most one handler is past the
\* check, and then the flag is set.
C37_OneDownloadAtATime ==
    [][/\ \A h \in Handlers :
            (pc[h] \in {"idle", "done"} /\ pc'[h] \notin {"idle", "done"})
            => IF is_download_in_progress
               THEN pc'[h] = "d_busy" /\ steps'[h] = <<>> /\ is_download_in_progress'
               ELSE pc'[h] = "d_defer" /\ is_download_in_progress'
       /\ \A h \in Handlers :
            pc[h] = "d_busy"
            => /\ pc'[h] \in {"d_busy", "done"}
               /\ ~Has(steps'[h], "compress")
               /\ pc'[h] # pc[h] => UNCHANGED is_download_in_progress
       /\ \A h, g \in Handlers : (pc'[h] \in DownloadAwaits /\ pc'[g] \in DownloadAwaits) => h = g
       /\ \A h \in Handlers : pc'[h] \in DownloadAwaits => is_download_in_progress']_vars

\* One handler has compressed and is sending the archive; the other asked
\* meanwhile, was sent the busy message and returned without compressing.
C37_Witness ==
    \E h, g \in Handlers :
        /\ h # g
        /\ InDownload(h) /\ pc[h] = "d_send" /\ Has(steps[h], "compress")
        /\ op[g] = "download" /\ pc[g] = "done" /\ outcome[g] = "busy" /\ reports[g] = 1
        /\ steps[g] = <<>>
        /\ is_download_in_progress

(***************************************************************************)
(* C38                                                                     *)
(***************************************************************************)
\* C38 as stated: the flag is not set whenever no download handler is past
\* the check: every exit of the handler resets it.
C38_FlagClearWhenNoDownloadRuns ==
    (\A h \in Handlers : ~InDownload(h)) => ~is_download_in_progress

\* What does hold: every return of an admitted request resets the flag but
\* one, the cancellation during ctx.defer, which leaves it set; and once it
\* is set with no download running it stays set: every later request is
\* sent the busy message.
C38_FlagClearedButByCancelledDeferral ==
    [][/\ \A h \in Handlers :
            (InDownload(h) /\ pc'[h] = "done")
            => (is_download_in_progress' = (pc[h] = "d_defer" /\ outcome'[h] = "cancelled"))
       /\ (is_download_in_progress /\ \A h \in Handlers : ~InDownload(h))
          => /\ is_download_in_progress'
             /\ \A h \in Handlers : ~InDownload(h)']_vars

\* A download was cancelled during ctx.defer; no download is running, the
\* flag is set, and a later request has been sent the busy message.
C38_Witness ==
    \E h, g \in Handlers :
        /\ h # g
        /\ op[h] = "download" /\ pc[h] = "done" /\ outcome[h] = "cancelled"
        /\ steps[h] = <<"cancelled">>
        /\ op[g] = "download" /\ pc[g] = "done" /\ outcome[g] = "busy" /\ reports[g] = 1
        /\ is_download_in_progress

(***************************************************************************)
(* C39                                                                     *)
(***************************************************************************)
\* An archive has been written.
Compressed == call.fn \in {"compress_directory", "compress_temp"}

\* The name starts with a dot, or is venv or __pycache__.
ExcludedName(x) ==
    \/ Head(x) = "."
    \/ x \in {<<"v", "e", "n", "v">>, <<"_", "_", "p", "y", "c", "a", "c", "h", "e", "_", "_">>}

\* The path has no excluded component.
Clean(p) == \A i \in DOMAIN p : ~ExcludedName(p[i])

\* C39 as stated: the archive holds no entry with a component that starts
\* with a dot or is venv or __pycache__, and compress_directory and
\* compress_temp archive the same entries of the same tree.
C39_ArchivesExcludeAndAgree ==
    Compressed
    => /\ \A p \in call.out.entries : Clean(p)
       /\ call.out.entries = compress_directory(call.in.tree)
       /\ call.out.entries = compress_temp(call.in.base, call.in.tree)

\* What does hold: compress_directory archives exactly the paths with no
\* excluded component; compress_temp archives no path with a component venv
\* or __pycache__, but keeps the names that start with a dot, and archives
\* nothing at all when the directory of main.py has a component venv.
C39_CompressDirectoryExcludes ==
    Compressed
    => /\ call.fn = "compress_directory"
          => call.out.entries = {p \in call.in.tree : Clean(p)}
       /\ call.fn = "compress_temp"
          => call.out.entries =
               IF Clean(call.in.base)
               THEN {p \in call.in.tree : \A i \in DOMAIN p : Head(p[i]) = "." \/ ~ExcludedName(p[i])}
               ELSE {}

\* compress_temp has archived .e and .e/a, which compress_directory leaves
\* out, beside a.
C39_Witness ==
    /\ call.fn = "compress_temp"
    /\ call.in.tree = {<<<<".", "e">>>>, <<<<".", "e">>, <<"a">>>>, <<<<"a">>>>}
    /\ call.out.entries = call.in.tree
    /\ compress_directory(call.in.tree) = {<<<<"a">>>>}

(***************************************************************************)
(* C40                                                                     *)
(***************************************************************************)
\* The Unload of handler h was refused on the info of its identity.
UnloadRefused(h) ==
    op[h] = "unload" /\ outcome[h] \in {"invalid_module", "info_raised"}

\* C40: an Unload of an identity that is no repository of its own is refused
\* as soon as the deferral has ended, and an Unload refused because the
\* info of its identity is invalid or could not be read sends one failure
\* report and changes nothing: it calls neither the loader nor the
\* dispatcher nor the deletion, and its steps leave the clone, the loaded
\* code, the command set and the dependency environment as they were.
C40_RefusedUnloadChangesNothing ==
    [][\A h \in Handlers :
          /\ (op[h] = "unload" /\ pc[h] = "u_defer" /\ pc'[h] # "u_defer")
             => /\ (~validate_git_repo(fs, kernel_git, arg[h]) /\ outcome'[h] # "defer_failed")
                   => outcome'[h] = "invalid_module"
                /\ outcome'[h] \in {"invalid_module", "info_raised"}
                   => /\ pc'[h] = "u_return"
                      /\ reports'[h] = 1
                      /\ steps'[h] = <<"info">>
                      /\ UNCHANGED evars
          /\ (UnloadRefused(h) /\ pc[h] = "u_return")
             => /\ pc'[h] \in {"u_return", "done"}
                /\ pc'[h] = "done"
                   => /\ UNCHANGED evars
                      /\ reports'[h] = 1
                      /\ steps'[h] = <<"info">>
                      /\ outcome'[h] = outcome[h]]_vars

\* An Unload of the directory cache, which is no repository of its own, has
\* returned after one report, with the directory still there.
C40_Witness ==
    \E h \in Handlers :
        /\ UnloadRefused(h) /\ pc[h] = "done"
        /\ outcome[h] = "invalid_module"
        /\ arg[h] = Cache
        /\ reports[h] = 1
        /\ steps[h] = <<"info">>
        /\ isdir(fs, Cache)

====
